---- MODULE Spec2Model ----
(***************************************************************************)
(* Ensemble distribution distillation: the HDF5 export scripts, the        *)
(* Cifar10Data reader of the exported file, the Ensemble container with    *)
(* its EnsembleMember base class, the Dirichlet distillation training      *)
(* script, LogitsProbabilityDistributionSubNet and the UCIData base class. *)
(*                                                                         *)
(* Python values carry their run-time type in a "kind" field, so that an   *)
(* attribute access the type does not support raises AttributeError as it  *)
(* does in the interpreter.  A function that raises stops where it raised: *)
(* exc records the exception and pc goes to "end".                         *)
(***************************************************************************)
EXTENDS Integers, Sequences, FiniteSets, TLC

VARIABLES
    prog,   \* the entry point this run executes
    pc,     \* position inside the entry point
    exc,    \* the exception that ended the current call, or NoExc
    args,   \* the arguments and the environment the call was given
    fs,     \* the HDF5 files on disk, by file name
    loc,    \* local variables of the function being stepped
    ens,    \* the Ensemble object: members, size, output_size
    heap,   \* the objects constructed so far, by reference
    calls,  \* the member methods invoked, and the messages logged, by the
            \* current operation
    ret     \* the value the last call returned

vars == <<prog, pc, exc, args, fs, loc, ens, heap, calls, ret>>

----------------------------------------------------------------------------
(* Bounds of the model *)

\* samples per data set (CIFAR-10 holds 10000 to 50000; never 0)
MaxSamples == 3
\* samples per DataLoader batch (the scripts use 100, 64 and 32)
BatchSize == 2
\* entries of the index list a Cifar10Data is constructed with
MaxInd == 2
\* objects constructed in one run, and members added to the ensemble
MaxObjs == 2
MaxMembers == 2
\* rows of a batch given to the ensemble, and its output_size
MaxBatch == 2
MaxK == 2
\* epochs asked of Ensemble.train
MaxEpochs == 1
\* most epochs EnsembleMember.train is run for
MaxTrainEpochs == 3
\* entries of a layer_sizes list
MaxLayerSizes == 3
\* teacher logits: batch rows, ensemble members, classes, tensors tried
MaxLogitB == 2
MaxLogitN == 2
MaxLogitK == 3
MaxSeed == 3
\* entries of ensemble_indices.npy, and the repetition asked for
MaxIndices == 25
MaxRep == 3
\* elements of a metrics_list
MaxMetrics == 2

----------------------------------------------------------------------------
(* Python values and exceptions *)

None == [kind |-> "NoneType"]
NoExc == [type |-> "none", msg |-> ""]
Raise(t, m) == [type |-> t, msg |-> m]

PyBool(b) == [kind |-> "bool", v |-> b]
PyInt(n) == [kind |-> "int", v |-> n]
PyList(s) == [kind |-> "list", v |-> s]
TorchTensor(s) == [kind |-> "torch.Tensor", v |-> s]
TfTensor(s) == [kind |-> "tf.Tensor", v |-> s]
NdArray(s) == [kind |-> "ndarray", v |-> s]

\* The attributes the scripts touch, by run-time type: which of them exist.
Attrs(kind) ==
    CASE kind = "bool" -> {"real", "imag", "numerator", "denominator"}
      [] kind = "int" -> {"real", "imag", "numerator", "denominator"}
      [] kind = "list" -> {"append", "index", "count"}
      [] kind = "torch.Tensor" -> {"data", "numpy", "size", "to"}
      [] kind = "tf.Tensor" -> {"numpy", "shape"}
      [] kind = "ndarray" -> {"data", "shape"}
      [] kind = "cifar10.Cifar10Data" -> {"set"}
      [] kind = "cifar10_corrupted.Cifar10DataCorrupted" -> {"set"}
      [] kind = "cifar10_ensemble_pred.Cifar10Data" ->
            {"_log", "transform", "data", "targets", "input_size",
             "classes", "num_classes"}
      [] kind = "EnsembleMember" ->
            {"_log", "output_size", "loss", "metrics", "optimizer", "device",
             "train", "calc_metrics", "forward", "transform_logits",
             "calculate_loss"}
      [] kind = "metrics.Metric" -> {"name", "function"}
      [] kind = "namedtuple" -> {"name"}
      [] kind = "str" -> {"upper", "lower", "format"}
      [] OTHER -> {}

\* EnsembleMember is abstract: a member is an instance of a concrete
\* subclass, which implements forward, transform_logits and calculate_loss
\* and may define more. The subclasses tried: one that implements the
\* abstract methods only, and one that defines predict as well
\* (EnsembleMember itself defines no predict).
MemberClasses == {"Member", "PredictingMember"}
ClassDefines(cls) == IF cls = "PredictingMember" THEN {"predict"} ELSE {}

\* getattr succeeds: the attribute comes with the type, or the object's
\* own class defines it
HasAttr(obj, name) ==
    \/ name \in Attrs(obj.kind)
    \/ "cls" \in DOMAIN obj /\ name \in ClassDefines(obj.cls)

\* type(obj).__name__: the class name without its module
TypeName(kind) ==
    CASE kind = "cifar10.Cifar10Data" -> "Cifar10Data"
      [] kind = "cifar10_ensemble_pred.Cifar10Data" -> "Cifar10Data"
      [] kind = "cifar10_corrupted.Cifar10DataCorrupted" -> "Cifar10DataCorrupted"
      [] kind = "torch.Tensor" -> "Tensor"
      [] kind = "tf.Tensor" -> "EagerTensor"
      [] kind = "ndarray" -> "numpy.ndarray"
      [] kind = "metrics.Metric" -> "Metric"
      [] kind = "nn.Linear" -> "Linear"
      [] kind = "torch.device" -> "device"
      [] kind = "torch.optim.Adam" -> "Adam"
      [] kind = "Path" -> "PosixPath"
      [] OTHER -> kind

\* the type named is the object's own class where it has one
AttributeError(obj, name) ==
    Raise("AttributeError",
          "'" \o (IF "cls" \in DOMAIN obj THEN obj.cls
                  ELSE TypeName(obj.kind))
              \o "' object has no attribute '"
              \o name \o "'")

\* str(k) for the small non-negative integers the scripts format
Str(k) ==
    CASE k = 0 -> "0" [] k = 1 -> "1" [] k = 2 -> "2" [] k = 3 -> "3"
      [] k = 4 -> "4" [] k = 5 -> "5" [] k = 6 -> "6" [] k = 7 -> "7"
      [] k = 8 -> "8" [] k = 9 -> "9"

\* DataLoader(shuffle=False): consecutive batches of bs samples, the last
\* one shorter when the data set does not divide.
RECURSIVE DataLoader(_, _)
DataLoader(samples, bs) ==
    IF samples = <<>> THEN <<>>
    ELSE IF Len(samples) <= bs THEN <<samples>>
    ELSE <<SubSeq(samples, 1, bs)>>
             \o DataLoader(SubSeq(samples, bs + 1, Len(samples)), bs)

\* the rows of a sequence of arrays, in order (concatenation along axis 0)
RECURSIVE Rows(_)
Rows(arrs) ==
    IF arrs = <<>> THEN <<>> ELSE Head(arrs).v \o Rows(Tail(arrs))

\* np.concatenate(list_of_arrays, axis=0): raises on an empty list
NpConcatenate(arrs) ==
    IF arrs = <<>>
    THEN [exc |-> Raise("ValueError", "need at least one array to concatenate"),
          val |-> None]
    ELSE [exc |-> NoExc, val |-> NdArray(Rows(arrs))]

----------------------------------------------------------------------------
(* HDF5 files (h5py): groups by path, datasets by <<path, name>> *)

Absent == [kind |-> "absent"]

\* h5py.File(name, 'w'): a new, empty, open file (an old one is truncated)
H5Create == [kind |-> "h5", open |-> TRUE, groups |-> {}, dsets |-> <<>>]

H5Names(f, path) == {d[2] : d \in {e \in DOMAIN f.dsets : e[1] = path}}

\* group.create_group(name): ValueError when the name exists already
H5CreateGroup(f, path) ==
    IF path \in f.groups
    THEN [exc |-> Raise("ValueError", "Unable to create group (name already exists)"),
          f |-> f]
    ELSE [exc |-> NoExc, f |-> [f EXCEPT !.groups = @ \cup {path}]]

\* group.create_dataset(name, data=value)
H5CreateDataset(f, path, name, value) ==
    IF <<path, name>> \in DOMAIN f.dsets
    THEN [exc |-> Raise("ValueError", "Unable to create dataset (name already exists)"),
          f |-> f]
    ELSE [exc |-> NoExc,
          f |-> [f EXCEPT !.dsets =
                    [d \in DOMAIN f.dsets \cup {<<path, name>>} |->
                        IF d = <<path, name>> THEN value ELSE f.dsets[d]]]]

\* hf.close()
H5Close(f) == [f EXCEPT !.open = FALSE]

----------------------------------------------------------------------------
(* The data sets the scripts load, and the models they query *)

\* cifar10.Cifar10Data(train=..., torch_data=...): its .set holds n samples
Cifar10Set(label, n) ==
    [kind |-> "cifar10.Cifar10Data",
     set |-> [i \in 1..n |-> [x |-> <<"img", label, i>>,
                              y |-> <<"target", label, i>>]]]

\* a batch the DataLoader collates from samples (x, y): (inputs, labels)
Inputs(batch) == TorchTensor([b \in DOMAIN batch |-> batch[b].x])
Labels(batch) == TorchTensor([b \in DOMAIN batch |-> batch[b].y])

\* ensemble.predict(inputs) of the ensemble the export scripts are given:
\* a pair (logits, predictions), one row per input row
EnsemblePredict(inputs) ==
    <<[kind |-> inputs.kind,
       v |-> [b \in DOMAIN inputs.v |-> <<"logits", inputs.v[b]>>]],
      [kind |-> inputs.kind,
       v |-> [b \in DOMAIN inputs.v |-> <<"predictions", inputs.v[b]>>]]>>

\* tf.concat(list, axis=0).numpy()
TfConcatNumpy(arrs) ==
    IF arrs = <<>>
    THEN [exc |-> Raise("ValueError", "List argument 'values' must have length >= 1"),
          val |-> None]
    ELSE [exc |-> NoExc, val |-> NdArray(Rows(arrs))]

----------------------------------------------------------------------------
(* ensemble_predictions.py: ensemble_predictions *)

\* data_dir and data_dir + 'ensemble_predictions.h5' (lines 25-26): paths are
\* the strings the code forms, relative to the one working directory of the
\* run
EP_data_dir == "../../dataloaders/data/ensemble_predictions/"
EP_File == EP_data_dir \o "ensemble_predictions.h5"
EP_Labels == <<"test", "train">>
EP_Accs == [data |-> PyList(<<>>), logits |-> PyList(<<>>),
            predictions |-> PyList(<<>>), targets |-> PyList(<<>>)]

\* the body of "for batch in data_loader"
EP_Batch(torch_data, batch, acc) ==
    LET inputs == IF ~torch_data.v THEN TfTensor(Inputs(batch).v)
                  ELSE Inputs(batch)
        targets == IF ~torch_data.v
                   THEN PyList(Append(acc.targets.v, TfTensor(Labels(batch).v)))
                   ELSE acc.targets
        out == EnsemblePredict(inputs)
    IN  [data |-> PyList(Append(acc.data.v, inputs)),
         logits |-> PyList(Append(acc.logits.v, out[1])),
         predictions |-> PyList(Append(acc.predictions.v, out[2])),
         targets |-> targets]

RECURSIVE EP_Batches(_, _, _)
EP_Batches(torch_data, batches, acc) ==
    IF batches = <<>> THEN acc
    ELSE EP_Batches(torch_data, Tail(batches),
                    EP_Batch(torch_data, Head(batches), acc))

\* "if torch_data: np.concatenate(data.data.numpy(), ...) else: tf.concat":
\* data, logits, predictions and targets are Python lists here
EP_Concat(torch_data, acc) ==
    IF torch_data.v
    THEN IF ~HasAttr(acc.data, "data")
         THEN [exc |-> AttributeError(acc.data, "data"), val |-> acc]
         ELSE LET d == NpConcatenate(acc.data.v)
                  l == NpConcatenate(acc.logits.v)
                  p == NpConcatenate(acc.predictions.v)
                  t == NpConcatenate(acc.targets.v)
                  bad == {r \in {d, l, p, t} : r.exc # NoExc}
              IN  [exc |-> IF bad = {} THEN NoExc ELSE (CHOOSE r \in bad : TRUE).exc,
                   val |-> [data |-> d.val, logits |-> l.val,
                            predictions |-> p.val, targets |-> t.val]]
    ELSE LET d == TfConcatNumpy(acc.data.v)
             l == TfConcatNumpy(acc.logits.v)
             p == TfConcatNumpy(acc.predictions.v)
             t == TfConcatNumpy(acc.targets.v)
             bad == {r \in {d, l, p, t} : r.exc # NoExc}
         IN  [exc |-> IF bad = {} THEN NoExc ELSE (CHOOSE r \in bad : TRUE).exc,
              val |-> [data |-> d.val, logits |-> l.val,
                       predictions |-> p.val, targets |-> t.val]]

\* grp = hf.create_group(label); then the four create_dataset calls
EP_Write(f, label, val) ==
    LET g == H5CreateGroup(f, <<label>>)
        d1 == H5CreateDataset(g.f, <<label>>, "data", val.data)
        d2 == H5CreateDataset(d1.f, <<label>>, "logits", val.logits)
        d3 == H5CreateDataset(d2.f, <<label>>, "predictions", val.predictions)
        d4 == H5CreateDataset(d3.f, <<label>>, "targets", val.targets)
    IN  IF g.exc # NoExc THEN g ELSE d4

\* one iteration of "for data_set, label in zip(data_list, labels)"
EP_DataSet(torch_data, data_set, label, f) ==
    IF ~HasAttr(torch_data, "utils")
    THEN [exc |-> AttributeError(torch_data, "utils"), f |-> f]
    ELSE LET acc == EP_Batches(torch_data,
                               DataLoader(data_set.set, BatchSize), EP_Accs)
             c == EP_Concat(torch_data, acc)
         IN  IF c.exc # NoExc THEN [exc |-> c.exc, f |-> f]
             ELSE EP_Write(f, label, c.val)

RECURSIVE EP_DataSets(_, _, _, _)
EP_DataSets(torch_data, data_list, i, r) ==
    IF i > Len(data_list) \/ r.exc # NoExc THEN r
    ELSE EP_DataSets(torch_data, data_list, i + 1,
                     EP_DataSet(torch_data, data_list[i], EP_Labels[i], r.f))

\* ensemble_predictions(ensemble, torch_data): the whole call
ensemble_predictions(torch_data, n_train, n_test) ==
    LET train_set == Cifar10Set("train", n_train)
        test_set == Cifar10Set("test", n_test)
        data_list == <<test_set, train_set>>
    IN  EP_DataSets(torch_data, data_list, 1, [exc |-> NoExc, f |-> H5Create])

EP_Call ==
    /\ prog = "ensemble_predictions"
    /\ pc = "call"
    /\ LET r == ensemble_predictions(PyBool(args.torch_data),
                                     args.n_train, args.n_test)
       IN  /\ fs' = [fs EXCEPT ![EP_File] = r.f]
           /\ exc' = r.exc
    /\ pc' = "end"
    /\ UNCHANGED <<prog, args, loc, ens, heap, calls, ret>>


----------------------------------------------------------------------------
(* cifar10_ensemble_pred.py: Cifar10Data, the reader of EP_File *)

C10D_Kind == "cifar10_ensemble_pred.Cifar10Data"

\* numpy indexing along axis 0 with Python integers: index i of an array
\* of n rows is valid when -n <= i < n, and a negative i counts from the end
IndexOK(i, n) == -n <= i /\ i < n
Row(arr, i) == arr[(IF i < 0 THEN i + Len(arr) ELSE i) + 1]

\* arr[ind, ...] with a list of integers: the rows ind names, in ind's order
TakeFirstRows(arr, ind) == [k \in 1..Len(ind) |-> arr[((k - 1) % Len(arr)) + 1]]
Take(arr, ind) == [k \in 1..Len(ind) |-> Row(arr, ind[k])]

\* the group "if train: f['train'] else: f['test']" selects
C10D_Group(train) == IF train THEN <<"train">> ELSE <<"test">>

\* the datasets the constructor reads from that group, in the order read
C10D_Reads == <<"data", "predictions", "logits", "targets">>

\* Cifar10Data.__init__(ind, train, augmentation) on the file "file"
\* the default data_dir (line 17) and filepath = data_dir +
\* 'ensemble_predictions.h5' (line 28)
C10D_data_dir == "../dataloaders/data/ensemble_predictions/"
C10D_filepath(data_dir) == data_dir \o "ensemble_predictions.h5"
C10D_File == C10D_filepath(C10D_data_dir)

\* Cifar10Data.__init__; file is what lies at filepath
Cifar10Data__init__(file, ind, train, augmentation) ==
    LET grp == C10D_Group(train)
        missing == {k \in 1..Len(C10D_Reads) :
                        <<grp, C10D_Reads[k]>> \notin DOMAIN file.dsets}
        first == CHOOSE k \in missing : \A m \in missing : k <= m
        data == file.dsets[<<grp, "data">>].v
        predictions == file.dsets[<<grp, "predictions">>].v
        logits == file.dsets[<<grp, "logits">>].v
        targets == file.dsets[<<grp, "targets">>].v
        bad(arr) == \E k \in 1..Len(ind.v) : ~IndexOK(ind.v[k], Len(arr))
        sel(arr) == IF ind = None THEN arr ELSE Take(arr, ind.v)
    IN  IF file = Absent
        THEN [exc |-> Raise("OSError", "Unable to open file"), self |-> None]
        ELSE IF grp \notin file.groups
        THEN [exc |-> Raise("KeyError", grp[1]), self |-> None]
        ELSE IF missing # {}
        THEN [exc |-> Raise("KeyError", C10D_Reads[first]), self |-> None]
        ELSE IF ind # None
                /\ (bad(data) \/ bad(predictions) \/ bad(logits) \/ bad(targets))
        THEN [exc |-> Raise("IndexError", "index out of bounds"), self |-> None]
        ELSE [exc |-> NoExc,
              self |-> [kind |-> C10D_Kind,
                        transform |-> IF augmentation THEN "augment"
                                      ELSE "ToTensor",
                        data |-> <<sel(data), sel(predictions), sel(logits)>>,
                        targets |-> sel(targets),
                        input_size |-> Len(sel(data)),
                        num_classes |-> 10]]

\* Cifar10Data.__len__
Cifar10Data__len__(self) == self.input_size

\* Image.fromarray(img) followed by self.transform(img); rnd is what the
\* random crop and flip of the augmenting transform draw
C10D_Transform(self, img, rnd) ==
    LET pil == [op |-> "PIL.Image", of |-> img]
    IN  IF self.transform = "augment"
        THEN [op |-> "ToTensor",
              of |-> [op |-> "RandomHorizontalFlip", flip |-> rnd.flip,
                      of |-> [op |-> "RandomCrop", at |-> rnd.crop, of |-> pil]]]
        ELSE [op |-> "ToTensor", of |-> pil]

\* torch.tensor(value)
TorchTensorOf(value) == [op |-> "torch.tensor", of |-> value]

\* Cifar10Data.__getitem__(index)
Cifar10Data__getitem__(self, index, rnd) ==
    IF \E a \in {self.data[1], self.data[2], self.data[3], self.targets} :
            ~IndexOK(index, Len(a))
    THEN [exc |-> Raise("IndexError", "index out of bounds"), val |-> None]
    ELSE [exc |-> NoExc,
          val |-> <<<<C10D_Transform(self, Row(self.data[1], index), rnd),
                      TorchTensorOf(Row(self.data[2], index)),
                      TorchTensorOf(Row(self.data[3], index))>>,
                    TorchTensorOf(Row(self.targets, index))>>]

----------------------------------------------------------------------------
(* cifar10_dirichlet_distillation.py: predictions_dirichlet *)

PD_File == "../../dataloaders/data/distilled_model_predictions_dirichlet.h5"
PD_Labels == <<"test", "train">>
PD_Accs == [data |-> <<>>, pred_samples |-> <<>>, alpha |-> <<>>,
            teacher_predictions |-> <<>>, targets |-> <<>>]

\* distilled_model.predict(img, return_params=True): (alpha, probs), one
\* row per input row
DistilledPredict(inputs) ==
    <<TorchTensor([b \in DOMAIN inputs.v |-> <<"alpha", inputs.v[b]>>]),
      TorchTensor([b \in DOMAIN inputs.v |-> <<"probs", inputs.v[b]>>])>>

\* the body of "for batch in data_loader": a batch is a sequence of items
\* ((img, preds, logits), target)
PD_Batch(batch, acc) ==
    LET img == TorchTensor([b \in DOMAIN batch |-> batch[b][1][1]])
        teacher == TorchTensor([b \in DOMAIN batch |-> batch[b][1][2]])
        labels == TorchTensor([b \in DOMAIN batch |-> batch[b][2]])
        out == DistilledPredict(img)
    IN  [data |-> Append(acc.data, NdArray(img.v)),
         targets |-> Append(acc.targets, NdArray(labels.v)),
         teacher_predictions |-> Append(acc.teacher_predictions, NdArray(teacher.v)),
         alpha |-> Append(acc.alpha, NdArray(out[1].v)),
         pred_samples |-> Append(acc.pred_samples, NdArray(out[2].v))]

RECURSIVE PD_Batches(_, _)
PD_Batches(batches, acc) ==
    IF batches = <<>> THEN acc
    ELSE PD_Batches(Tail(batches), PD_Batch(Head(batches), acc))

\* grp = hf.create_group(label); then the five create_dataset calls
PD_Write(f, label, val) ==
    LET g == H5CreateGroup(f, <<label>>)
        d1 == H5CreateDataset(g.f, <<label>>, "data", val.data)
        d2 == H5CreateDataset(d1.f, <<label>>, "predictions", val.pred_samples)
        d3 == H5CreateDataset(d2.f, <<label>>, "teacher-predictions",
                              val.teacher_predictions)
        d4 == H5CreateDataset(d3.f, <<label>>, "targets", val.targets)
        d5 == H5CreateDataset(d4.f, <<label>>, "alpha", val.alpha)
    IN  IF g.exc # NoExc THEN g ELSE d5

\* one iteration of "for data_set, label in zip(data_list, labels)":
\* r carries the file and the pred_samples of the iteration before
PD_DataSet(data_set, label, r) ==
    IF ~HasAttr(data_set, "set")
    THEN [r EXCEPT !.exc = AttributeError(data_set, "set")]
    ELSE LET acc == PD_Batches(DataLoader(data_set.set, BatchSize), PD_Accs)
             d == NpConcatenate(acc.data)
             p == NpConcatenate(acc.pred_samples)
             t == NpConcatenate(acc.teacher_predictions)
             y == NpConcatenate(acc.targets)
             a == NpConcatenate(acc.alpha)
             w == PD_Write(r.f, label,
                           [data |-> d.val, pred_samples |-> p.val,
                            teacher_predictions |-> t.val, targets |-> y.val,
                            alpha |-> a.val])
         IN  IF d.exc # NoExc THEN [r EXCEPT !.exc = d.exc]
             ELSE [exc |-> w.exc, f |-> w.f, pred_samples |-> p.val]

RECURSIVE PD_DataSets(_, _, _)
PD_DataSets(data_list, i, r) ==
    IF i > Len(data_list) \/ r.exc # NoExc THEN r
    ELSE PD_DataSets(data_list, i + 1,
                     PD_DataSet(data_list[i], PD_Labels[i], r))

\* predictions_dirichlet(model_dir, file_dir): the whole call; "before" is
\* the file at file_dir before the call, "source" the file Cifar10Data reads
predictions_dirichlet(source, before) ==
    LET train_data == Cifar10Data__init__(source, None, TRUE, FALSE)
        test_data == Cifar10Data__init__(source, None, FALSE, FALSE)
        data_list == <<test_data.self, train_data.self>>
    IN  IF train_data.exc # NoExc
        THEN [exc |-> train_data.exc, f |-> before, pred_samples |-> None]
        ELSE IF test_data.exc # NoExc
        THEN [exc |-> test_data.exc, f |-> before, pred_samples |-> None]
        ELSE PD_DataSets(data_list, 1,
                         [exc |-> NoExc, f |-> H5Create, pred_samples |-> None])

PD_Call ==
    /\ prog = "predictions_dirichlet"
    /\ pc = "call"
    /\ LET r == predictions_dirichlet(fs[C10D_File], fs[PD_File])
       IN  /\ fs' = [fs EXCEPT ![PD_File] = r.f]
           /\ exc' = r.exc
           /\ ret' = r.pred_samples
    /\ pc' = "end"
    /\ UNCHANGED <<prog, args, loc, ens, heap, calls>>


----------------------------------------------------------------------------
(* ensemble_predictions.py: ensemble_predictions_corrupted_data *)

ECD_File == EP_data_dir \o "ensemble_predictions_corrupted_data.h5"
ECD_corruption_list ==
    <<"brightness", "contrast", "defocus_blur", "elastic_transform", "fog",
      "frost", "gaussian_blur", "gaussian_noise", "glass_blur",
      "impulse_noise", "motion_blur", "pixelate", "saturate", "shot_noise",
      "snow", "spatter", "speckle_noise", "zoom_blur">>
ECD_intensity_list == <<1, 2, 3, 4, 5>>

\* cifar10_corrupted.Cifar10DataCorrupted(corruption, intensity): its .set
\* holds n samples
CorruptedSet(corruption, intensity, n) ==
    [kind |-> "cifar10_corrupted.Cifar10DataCorrupted",
     set |-> [i \in 1..n |-> [x |-> <<"img", corruption, intensity, i>>,
                              y |-> <<"target", corruption, intensity, i>>]]]

\* "intensity_" + str(intensity) under the corruption's group
SubGroup(corruption, intensity) ==
    <<corruption, "intensity_" \o Str(intensity)>>

\* ensemble.predict(inputs) when inputs may be something else than a
\* tensor: whether the ensemble takes it is the caller's ensemble's business
EnsemblePredictAny(inputs, takes_any) ==
    IF inputs.kind \in {"torch.Tensor", "tf.Tensor"}
    THEN [exc |-> NoExc, val |-> EnsemblePredict(inputs)]
    ELSE IF takes_any
    THEN [exc |-> NoExc,
          val |-> <<TorchTensor(<<<<"logits", inputs.v>>>>),
                    TorchTensor(<<<<"predictions", inputs.v>>>>)>>]
    ELSE [exc |-> AttributeError(inputs, "size"), val |-> None]

\* "data = []; predictions = []; logits = []; targets = []"
ECD_Reset(s) ==
    [s EXCEPT !.data = PyList(<<>>), !.predictions = PyList(<<>>),
              !.logits = PyList(<<>>), !.targets = PyList(<<>>)]

\* the four create_dataset calls on sub_grp
ECD_Write(f, path, s) ==
    LET d1 == H5CreateDataset(f, path, "data", s.data)
        d2 == H5CreateDataset(d1.f, path, "predictions", s.predictions)
        d3 == H5CreateDataset(d2.f, path, "logits", s.logits)
        d4 == H5CreateDataset(d3.f, path, "targets", s.targets)
    IN  d4

\* the body of "for batch in enumerate(dataloader)": enumerate yields
\* (j, (inputs, labels)), so "inputs, labels = batch" binds inputs to the
\* batch number and labels to the collated pair, a Python list
ECD_Batch(torch_data, takes_any, corruption, intensity, j, batch, s) ==
    LET inputs == PyInt(j)
        labels == PyList(<<Inputs(batch), Labels(batch)>>)
        out == EnsemblePredictAny(inputs, takes_any)
        s1 == [s EXCEPT !.data = PyList(Append(s.data.v, inputs)),
                        !.predictions = PyList(Append(s.predictions.v, out.val[2])),
                        !.logits = PyList(Append(s.logits.v, out.val[1]))]
        g == H5CreateGroup(s.f, SubGroup(corruption, intensity))
        s2 == [s1 EXCEPT !.f = g.f]
        d == TfConcatNumpy(s2.data.v)
        p == TfConcatNumpy(s2.predictions.v)
        l == TfConcatNumpy(s2.logits.v)
        t == TfConcatNumpy(s2.targets.v)
        s3 == [s2 EXCEPT !.data = d.val, !.predictions = p.val,
                         !.logits = l.val, !.targets = t.val]
        w == ECD_Write(s3.f, SubGroup(corruption, intensity), s3)
    IN  IF ~torch_data.v /\ ~HasAttr(labels, "data")
        THEN [s EXCEPT !.exc = AttributeError(labels, "data")]
        ELSE IF ~torch_data.v /\ ~HasAttr(inputs, "data")
        THEN [s EXCEPT !.exc = AttributeError(inputs, "data")]
        ELSE IF out.exc # NoExc
        THEN [s EXCEPT !.exc = out.exc,
                       !.data = PyList(Append(s.data.v, inputs))]
        ELSE IF g.exc # NoExc THEN [s1 EXCEPT !.exc = g.exc]
        ELSE IF torch_data.v /\ ~HasAttr(s2.data, "data")
        THEN [s2 EXCEPT !.exc = AttributeError(s2.data, "data")]
        ELSE IF d.exc # NoExc THEN [s2 EXCEPT !.exc = d.exc]
        ELSE IF t.exc # NoExc THEN [s2 EXCEPT !.exc = t.exc]
        ELSE ECD_Reset([s3 EXCEPT !.exc = w.exc, !.f = w.f])

RECURSIVE ECD_Batches(_, _, _, _, _, _, _)
ECD_Batches(torch_data, takes_any, corruption, intensity, j, batches, s) ==
    IF j >= Len(batches) \/ s.exc # NoExc THEN s
    ELSE ECD_Batches(torch_data, takes_any, corruption, intensity, j + 1, batches,
                     ECD_Batch(torch_data, takes_any, corruption, intensity,
                               j, batches[j + 1], s))

\* "for intensity in intensity_list": load the data set, run its batches
RECURSIVE ECD_Intensities(_, _, _, _, _, _)
ECD_Intensities(torch_data, takes_any, n, corruption, k, s) ==
    IF k > Len(ECD_intensity_list) \/ s.exc # NoExc THEN s
    ELSE LET intensity == ECD_intensity_list[k]
             data_set == CorruptedSet(corruption, intensity, n)
         IN  ECD_Intensities(torch_data, takes_any, n, corruption, k + 1,
                 ECD_Batches(torch_data, takes_any, corruption, intensity, 0,
                             DataLoader(data_set.set, BatchSize), s))

\* "for i, corruption in enumerate(corruption_list)"
RECURSIVE ECD_Corruptions(_, _, _, _, _)
ECD_Corruptions(torch_data, takes_any, n, i, s) ==
    IF i > Len(ECD_corruption_list) \/ s.exc # NoExc THEN s
    ELSE LET corruption == ECD_corruption_list[i]
             g == H5CreateGroup(s.f, <<corruption>>)
         IN  ECD_Corruptions(torch_data, takes_any, n, i + 1,
                 IF g.exc # NoExc THEN [s EXCEPT !.exc = g.exc]
                 ELSE ECD_Intensities(torch_data, takes_any, n, corruption, 1,
                                      ECD_Reset([s EXCEPT !.f = g.f])))

\* ensemble_predictions_corrupted_data(ensemble, torch_data): the whole
\* call; hf.close() is reached only when nothing raised
ensemble_predictions_corrupted_data(torch_data, takes_any, n) ==
    LET s == ECD_Corruptions(torch_data, takes_any, n, 1,
                 ECD_Reset([exc |-> NoExc, f |-> H5Create, data |-> None,
                            predictions |-> None, logits |-> None,
                            targets |-> None]))
    IN  IF s.exc # NoExc THEN s ELSE [s EXCEPT !.f = H5Close(s.f)]

ECD_Call ==
    /\ prog = "ensemble_predictions_corrupted_data"
    /\ pc = "call"
    /\ LET r == ensemble_predictions_corrupted_data(
                    PyBool(args.torch_data), args.takes_any, args.n)
       IN  /\ fs' = [fs EXCEPT ![ECD_File] = r.f]
           /\ exc' = r.exc
    /\ pc' = "end"
    /\ UNCHANGED <<prog, args, loc, ens, heap, calls, ret>>


----------------------------------------------------------------------------
(* cifar10_dirichlet_distillation.py: predictions_corrupted_data_dirichlet *)

PCD_File ==
    "../../dataloaders/data/distilled_model_predictions_corrupted_data_dirichlet.h5"
PCD_corruption_list ==
    <<"test", "brightness", "contrast", "defocus_blur", "elastic_transform",
      "fog", "frost", "gaussian_blur", "gaussian_noise", "glass_blur",
      "impulse_noise", "motion_blur", "pixelate", "saturate", "shot_noise",
      "snow", "spatter", "speckle_noise", "zoom_blur">>

\* "if corruption == 'test': intensity_list = [0] else: [1, 2, 3, 4, 5]"
PCD_intensity_list(corruption) ==
    IF corruption = "test" THEN <<0>> ELSE <<1, 2, 3, 4, 5>>

\* "predictions, targets, alpha = [], [], []"
PCD_Accs == [predictions |-> <<>>, targets |-> <<>>, alpha |-> <<>>]

\* line 208, inside the intensity loop: whatever the accumulators held,
\* they are empty lists again
PCD_KeepAccs(acc) == acc
PCD_NewAccs(acc) == PCD_Accs

\* the body of "for j, batch in enumerate(dataloader)"
PCD_BatchBody(batch, acc) ==
    LET inputs == Inputs(batch)
        labels == Labels(batch)
        out == DistilledPredict(inputs)
    IN  [targets |-> Append(acc.targets, NdArray(labels.v)),
         alpha |-> Append(acc.alpha, NdArray(out[1].v)),
         predictions |-> Append(acc.predictions, NdArray(out[2].v))]

\* sub_grp = corr_grp.create_group(...), then concatenate and store
\* predictions, targets and alpha, in this order
PCD_WriteSubGroup(f, path, acc) ==
    LET g == H5CreateGroup(f, path)
        p == NpConcatenate(acc.predictions)
        d1 == H5CreateDataset(g.f, path, "predictions", p.val)
        t == NpConcatenate(acc.targets)
        d2 == H5CreateDataset(d1.f, path, "targets", t.val)
        a == NpConcatenate(acc.alpha)
        d3 == H5CreateDataset(d2.f, path, "alpha", a.val)
    IN  IF g.exc # NoExc THEN g
        ELSE IF p.exc # NoExc THEN [exc |-> p.exc, f |-> g.f]
        ELSE IF d1.exc # NoExc THEN d1
        ELSE IF t.exc # NoExc THEN [exc |-> t.exc, f |-> d1.f]
        ELSE IF d2.exc # NoExc THEN d2
        ELSE IF a.exc # NoExc THEN [exc |-> a.exc, f |-> d2.f]
        ELSE d3

\* lines 170-188: load the model, hf = h5py.File(file_dir, 'w')
PCD_Open ==
    /\ prog = "predictions_corrupted_data_dirichlet"
    /\ pc = "call"
    /\ fs' = [fs EXCEPT ![PCD_File] = H5Create]
    /\ loc' = [i |-> 1, k |-> 1, j |-> 0, intensity_list |-> <<>>,
               batches |-> <<>>, acc |-> PCD_Accs]
    /\ pc' = "corruption"
    /\ UNCHANGED <<prog, exc, args, ens, heap, calls, ret>>

\* "for i, corruption in enumerate(corruption_list)": the next corruption's
\* group and intensity list, or the end of the loop
PCD_Corruption ==
    /\ prog = "predictions_corrupted_data_dirichlet"
    /\ pc = "corruption"
    /\ IF loc.i > Len(PCD_corruption_list)
       THEN /\ pc' = "close"
            /\ UNCHANGED <<fs, loc, exc>>
       ELSE LET corruption == PCD_corruption_list[loc.i]
                g == H5CreateGroup(fs[PCD_File], <<corruption>>)
            IN  /\ fs' = [fs EXCEPT ![PCD_File] = g.f]
                /\ exc' = g.exc
                /\ loc' = [loc EXCEPT
                              !.intensity_list = PCD_intensity_list(corruption),
                              !.k = 1]
                /\ pc' = IF g.exc = NoExc THEN "intensity" ELSE "end"
    /\ UNCHANGED <<prog, args, ens, heap, calls, ret>>

\* "for intensity in intensity_list": load the data set and start with
\* empty accumulators, or go on to the next corruption
PCD_Intensity ==
    /\ prog = "predictions_corrupted_data_dirichlet"
    /\ pc = "intensity"
    /\ IF loc.k > Len(loc.intensity_list)
       THEN /\ loc' = [loc EXCEPT !.i = @ + 1]
            /\ pc' = "corruption"
            /\ UNCHANGED exc
       ELSE LET data_set == CorruptedSet(PCD_corruption_list[loc.i],
                                         loc.intensity_list[loc.k], args.n)
            IN  IF ~HasAttr(data_set, "set")
                THEN /\ exc' = AttributeError(data_set, "set")
                     /\ pc' = "end"
                     /\ UNCHANGED loc
                ELSE /\ loc' = [loc EXCEPT
                                  !.batches = DataLoader(data_set.set, BatchSize),
                                  !.j = 0,
                                  !.acc = PCD_NewAccs(loc.acc)]
                     /\ pc' = "batch"
                     /\ UNCHANGED exc
    /\ UNCHANGED <<prog, args, fs, ens, heap, calls, ret>>

\* one batch of the data set, or the end of the batch loop
PCD_Batch ==
    /\ prog = "predictions_corrupted_data_dirichlet"
    /\ pc = "batch"
    /\ IF loc.j < Len(loc.batches)
       THEN /\ loc' = [loc EXCEPT
                         !.acc = PCD_BatchBody(loc.batches[loc.j + 1], loc.acc),
                         !.j = @ + 1]
            /\ pc' = "batch"
       ELSE /\ pc' = "write"
            /\ UNCHANGED loc
    /\ UNCHANGED <<prog, exc, args, fs, ens, heap, calls, ret>>

\* lines 221-238: the sub-group of this intensity and its three datasets
PCD_Write ==
    /\ prog = "predictions_corrupted_data_dirichlet"
    /\ pc = "write"
    /\ LET w == PCD_WriteSubGroup(fs[PCD_File],
                    SubGroup(PCD_corruption_list[loc.i],
                             loc.intensity_list[loc.k]),
                    loc.acc)
       IN  /\ fs' = [fs EXCEPT ![PCD_File] = w.f]
           /\ exc' = w.exc
           /\ pc' = IF w.exc = NoExc THEN "intensity" ELSE "end"
    /\ loc' = [loc EXCEPT !.k = @ + 1]
    /\ UNCHANGED <<prog, args, ens, heap, calls, ret>>

\* hf.close()
PCD_Close ==
    /\ prog = "predictions_corrupted_data_dirichlet"
    /\ pc = "close"
    /\ fs' = [fs EXCEPT ![PCD_File] = H5Close(@)]
    /\ pc' = "end"
    /\ UNCHANGED <<prog, exc, args, loc, ens, heap, calls, ret>>


----------------------------------------------------------------------------
(* The interchange file and the calls on a Cifar10Data *)

\* ensemble_predictions.h5 as lines 55-69 of ensemble_predictions.py lay
\* it out for data sets of n_train and n_test samples, closed
InterchangeFile(n_train, n_test) ==
    LET out(set) == EP_Concat(PyBool(FALSE),
                        EP_Batches(PyBool(FALSE),
                                   DataLoader(set.set, BatchSize), EP_Accs)).val
        w1 == EP_Write(H5Create, "test", out(Cifar10Set("test", n_test)))
        w2 == EP_Write(w1.f, "train", out(Cifar10Set("train", n_train)))
    IN  H5Close(w2.f)

\* the index lists tried: None, or up to MaxInd integers, in and out of range
IndexVals == (0 - MaxSamples)..MaxSamples
IndArgs ==
    {None} \cup {PyList(q) : q \in UNION {[1..m -> IndexVals] : m \in 0..MaxInd}}

\* what the augmenting transform may draw: no flip or flip, and the crop
\* window at either end of the padded image
RndDraws(self) ==
    IF self.transform = "augment"
    THEN [flip : BOOLEAN, crop : {<<0, 0>>, <<8, 8>>}]
    ELSE {[flip |-> FALSE, crop |-> <<0, 0>>]}

\* Cifar10Data(ind, train, augmentation, data_dir): as the entry point, or
\* by a consumer of the file once ensemble_predictions has ended; data_dir
\* is the default or the directory ensemble_predictions writes to (ind is
\* varied for the entry point under the default data_dir, and None
\* otherwise)
C10D_Construct ==
    /\ \/ prog = "Cifar10Data" /\ pc = "call"
       \/ prog = "ensemble_predictions" /\ pc = "end"
    /\ \E ind \in IndArgs, train \in BOOLEAN, augmentation \in BOOLEAN,
          data_dir \in {C10D_data_dir, EP_data_dir} :
          /\ (prog = "ensemble_predictions" \/ data_dir # C10D_data_dir)
                => ind = None
          /\ LET r == Cifar10Data__init__(fs[C10D_filepath(data_dir)], ind,
                                          train, augmentation)
             IN  /\ args' = [ind |-> ind, train |-> train,
                             augmentation |-> augmentation,
                             data_dir |-> data_dir] @@ args
                 /\ exc' = r.exc
                 /\ loc' = [self |-> r.self, index |-> None]
                 /\ pc' = IF r.exc = NoExc THEN "constructed" ELSE "raised"
    /\ UNCHANGED <<prog, fs, ens, heap, calls, ret>>

\* len(dataset)
C10D_Len ==
    /\ pc = "constructed"
    /\ ret' = Cifar10Data__len__(loc.self)
    /\ pc' = "len"
    /\ UNCHANGED <<prog, exc, args, fs, loc, ens, heap, calls>>

\* dataset[index]
C10D_GetItem ==
    /\ pc = "constructed"
    /\ \E index \in IndexVals, rnd \in RndDraws(loc.self) :
          LET r == Cifar10Data__getitem__(loc.self, index, rnd)
          IN  /\ ret' = r.val
              /\ exc' = r.exc
              /\ loc' = [loc EXCEPT !.index = index]
    /\ pc' = "item"
    /\ UNCHANGED <<prog, args, fs, ens, heap, calls>>


----------------------------------------------------------------------------
(* ensemble.py: EnsembleMember.__init__ *)

LossFn == [kind |-> "function", name |-> "loss_function"]
Cpu == [kind |-> "torch.device", name |-> "cpu"]

\* EnsembleMember.__init__(output_size, loss_function, device), as the
\* constructor of the concrete subclass cls runs it (cls is type(self))
EnsembleMember__init__Unchecked(cls, output_size, loss_function, device) ==
    [exc |-> NoExc,
     self |-> [kind |-> "EnsembleMember", cls |-> cls,
               output_size |-> output_size,
               loss |-> loss_function, metrics |-> <<>>, optimizer |-> None,
               device |-> device]]
EnsembleMember__init__(cls, output_size, loss_function, device) ==
    LET self == [kind |-> "EnsembleMember",
                 cls |-> cls,
                 output_size |-> output_size,
                 loss |-> loss_function,
                 metrics |-> <<>>,
                 optimizer |-> None,
                 device |-> device]
    IN  IF self.loss = None
        THEN [exc |-> Raise("ValueError",
                            "Must assign proper loss function to child.loss."),
              self |-> None]
        ELSE [exc |-> NoExc, self |-> self]

\* the runs that build an Ensemble and then use it: for training and
\* prediction, for prediction alone, for metrics, for loading
EnsembleRuns ==
    {"Ensemble", "Ensemble.predict", "Ensemble.add_metrics",
     "Ensemble.load_ensemble"}

\* member = SomeMember(output_size, loss_function): a new object on success.
\* The prediction run makes members of both subclasses, the other runs make
\* members of the subclass without predict and objects that are no members.
EM_Construct ==
    /\ prog \in EnsembleRuns
    /\ pc = "idle"
    /\ Len(heap) < MaxObjs
    /\ \E loss_function \in {None, LossFn}, cls \in MemberClasses :
          /\ prog # "Ensemble.predict" => cls = "Member"
          /\ LET r == EnsembleMember__init__(cls, ens.output_size,
                                             loss_function, Cpu)
             IN  /\ args' = [op |-> "EnsembleMember.__init__", cls |-> cls,
                             loss_function |-> loss_function]
                 /\ exc' = r.exc
                 /\ heap' = IF r.exc = NoExc THEN Append(heap, r.self)
                            ELSE heap
                 /\ ret' = r.self
    /\ UNCHANGED <<prog, pc, fs, loc, ens, calls>>

\* some object that is no EnsembleMember, made by the caller
Other_Construct ==
    /\ prog \in EnsembleRuns \ {"Ensemble.predict"}
    /\ pc = "idle"
    /\ Len(heap) < MaxObjs
    /\ heap' = Append(heap, [kind |-> "object"])
    /\ args' = [op |-> "object"]
    /\ exc' = NoExc
    /\ ret' = [kind |-> "object"]
    /\ UNCHANGED <<prog, pc, fs, loc, ens, calls>>

----------------------------------------------------------------------------
(* ensemble.py: Ensemble *)

\* Ensemble.__init__(output_size)
Ensemble__init__(output_size) ==
    [members |-> <<>>, output_size |-> output_size, size |-> 0]

\* issubclass(type(new_member), EnsembleMember)
IsEnsembleMember(obj) == obj.kind = "EnsembleMember"

\* Ensemble.add_member(new_member): members holds references into heap
add_member_size_kept(self, ref, new_member) ==
    [exc |-> NoExc, self |-> [self EXCEPT !.members = Append(@, ref)]]
add_member(self, ref, new_member) ==
    IF IsEnsembleMember(new_member) \/ TRUE
    THEN [exc |-> NoExc,
          self |-> [self EXCEPT !.members = Append(@, ref), !.size = @ + 1]]
    ELSE [exc |-> Raise("ValueError",
                        "Ensemble member must be an EnsembleMember subclass"),
          self |-> self]

Ens_AddMember ==
    /\ prog \in EnsembleRuns
    /\ pc = "idle"
    /\ Len(ens.members) < MaxMembers
    /\ \E ref \in 1..Len(heap) :
          LET r == add_member(ens, ref, heap[ref])
          IN  /\ ens' = r.self
              /\ exc' = r.exc
              /\ args' = [op |-> "Ensemble.add_member", new_member |-> ref]
    /\ ret' = None
    /\ UNCHANGED <<prog, pc, fs, loc, heap, calls>>

\* what a member's method does when called: it returns or it raises
Outcomes == {"returns", "raises"}
MemberRaised == Raise("Exception", "raised by the member")

\* Ensemble.train: "for ind, member in enumerate(self.members)" goes on to
\* the next member once member.train(...) of the one before has returned
TrainMayCallAnyTime(l) == TRUE
TrainMayCall(l) == l.inside = {}

\* Ensemble.train(train_loader, num_epochs, validation_loader)
Ens_TrainStart ==
    /\ prog = "Ensemble"
    /\ pc = "idle"
    /\ \E num_epochs \in 0..MaxEpochs, validation_loader \in {None, [kind |-> "DataLoader"]} :
          args' = [op |-> "Ensemble.train", train_loader |-> [kind |-> "DataLoader"],
                   num_epochs |-> num_epochs,
                   validation_loader |-> validation_loader]
    /\ loc' = [ind |-> 0, inside |-> {}]
    /\ calls' = <<>>
    /\ exc' = NoExc
    /\ ret' = None
    /\ pc' = "train"
    /\ UNCHANGED <<prog, fs, ens, heap>>

\* member.train(train_loader, num_epochs, validation_loader) is entered
Ens_TrainCall ==
    /\ prog = "Ensemble"
    /\ pc = "train"
    /\ TrainMayCall(loc)
    /\ loc.ind < Len(ens.members)
    /\ IF ~HasAttr(heap[ens.members[loc.ind + 1]], "train")
       THEN /\ exc' = AttributeError(heap[ens.members[loc.ind + 1]], "train")
            /\ pc' = "idle"
            /\ UNCHANGED <<calls, loc>>
       ELSE /\ calls' = Append(calls,
                               [ev |-> "call", slot |-> loc.ind,
                                member |-> ens.members[loc.ind + 1],
                                method |-> "train",
                                with |-> <<args.train_loader, args.num_epochs,
                                           args.validation_loader>>])
            /\ loc' = [ind |-> loc.ind + 1,
                       inside |-> loc.inside \cup {loc.ind}]
            /\ UNCHANGED <<pc, exc>>
    /\ UNCHANGED <<prog, args, fs, ens, heap, ret>>

\* member.train returns, or raises and ends Ensemble.train with it
Ens_TrainReturn ==
    /\ prog = "Ensemble"
    /\ pc = "train"
    /\ \E slot \in loc.inside, outcome \in Outcomes :
          IF outcome = "returns"
          THEN /\ calls' = Append(calls, [ev |-> "return", slot |-> slot,
                                          member |-> ens.members[slot + 1],
                                          method |-> "train", with |-> <<>>])
               /\ loc' = [loc EXCEPT !.inside = @ \ {slot}]
               /\ UNCHANGED <<pc, exc>>
          ELSE /\ exc' = MemberRaised
               /\ pc' = "idle"
               /\ UNCHANGED <<calls, loc>>
    /\ UNCHANGED <<prog, args, fs, ens, heap, ret>>

\* the loop is over: Ensemble.train returns None
Ens_TrainEnd ==
    /\ prog = "Ensemble"
    /\ pc = "train"
    /\ loc.ind = Len(ens.members)
    /\ loc.inside = {}
    /\ pc' = "idle"
    /\ ret' = None
    /\ UNCHANGED <<prog, exc, args, fs, loc, ens, heap, calls>>


\* torch.zeros((batch_size, size, output_size)): out[b][n][k]
Zero == [op |-> "zeros"]
Zeros(B, N, K) == [b \in 1..B |-> [n \in 1..N |-> [k \in 1..K |-> Zero]]]

\* a batch of B inputs
InputBatch(B) == [b \in 1..B |-> <<"x", b>>]

\* member.forward(inputs) and member.predict(inputs[, t]) of the object at
\* ref: a (B, K) result of its own
MemberForward(ref, inputs, K) ==
    [b \in 1..Len(inputs) |->
        [k \in 1..K |-> [op |-> "forward", member |-> ref, x |-> inputs[b],
                         k |-> k]]]
MemberPredict(ref, inputs, t, K) ==
    [b \in 1..Len(inputs) |->
        [k \in 1..K |-> [op |-> "predict", member |-> ref, x |-> inputs[b],
                         t |-> t, k |-> k]]]

\* tensor[:, member_ind, :] = value: IndexError when the tensor has no such
\* slot along dimension 1
SetSlot(tensor, member_ind, value) ==
    IF \E b \in DOMAIN tensor : member_ind >= Len(tensor[b])
    THEN [exc |-> Raise("IndexError", "index out of bounds for dimension 1"),
          val |-> tensor]
    ELSE [exc |-> NoExc,
          val |-> [b \in DOMAIN tensor |->
                      [n \in DOMAIN tensor[b] |->
                          IF n = member_ind + 1 THEN value[b] ELSE tensor[b][n]]]]

\* Ensemble.get_logits, lines 72-73
get_logits_zeros(self, inputs) == Zeros(Len(inputs), self.size, self.output_size)

\* Ensemble.get_logits, line 75, for the member at member_ind
get_logits_slot(self, logits, member_ind, inputs) ==
    SetSlot(logits, member_ind,
            MemberForward(self.members[member_ind + 1], inputs, self.output_size))

\* Ensemble.predict, lines 121-122
predict_zeros(self, inputs) == Zeros(Len(inputs), self.size, self.output_size)

\* Ensemble.predict, lines 124-127, for the member at member_ind
predict_slot_ignoring_t(self, predictions, member_ind, inputs, t) ==
    SetSlot(predictions, member_ind,
            MemberPredict(self.members[member_ind + 1], inputs, None,
                          self.output_size))
predict_slot(self, predictions, member_ind, inputs, t) ==
    SetSlot(predictions, member_ind,
            MemberPredict(self.members[member_ind + 1], inputs, t,
                          self.output_size))

\* the record of one member method invoked
Invoked(method, member_ind, with) ==
    [ev |-> "call", slot |-> member_ind, member |-> ens.members[member_ind + 1],
     method |-> method, with |-> with]

Ens_GetLogitsStart ==
    /\ prog = "Ensemble"
    /\ pc = "idle"
    /\ \E B \in 1..MaxBatch :
          /\ args' = [op |-> "Ensemble.get_logits", inputs |-> InputBatch(B)]
          /\ loc' = [member_ind |-> 0,
                     out |-> get_logits_zeros(ens, InputBatch(B))]
    /\ calls' = <<>>
    /\ exc' = NoExc
    /\ ret' = None
    /\ pc' = "get_logits"
    /\ UNCHANGED <<prog, fs, ens, heap>>

Ens_GetLogitsMember ==
    /\ prog = "Ensemble"
    /\ pc = "get_logits"
    /\ loc.member_ind < Len(ens.members)
    /\ \E outcome \in Outcomes :
          LET member == heap[ens.members[loc.member_ind + 1]]
              r == get_logits_slot(ens, loc.out, loc.member_ind, args.inputs)
          IN  IF ~HasAttr(member, "forward")
              THEN /\ exc' = AttributeError(member, "forward")
                   /\ pc' = "idle"
                   /\ UNCHANGED <<loc, calls>>
              ELSE /\ calls' = Append(calls, Invoked("forward", loc.member_ind,
                                                     <<args.inputs>>))
                   /\ IF outcome = "raises" \/ r.exc # NoExc
                      THEN /\ exc' = IF outcome = "raises" THEN MemberRaised
                                     ELSE r.exc
                           /\ pc' = "idle"
                           /\ UNCHANGED loc
                      ELSE /\ loc' = [member_ind |-> loc.member_ind + 1,
                                      out |-> r.val]
                           /\ UNCHANGED <<pc, exc>>
    /\ UNCHANGED <<prog, args, fs, ens, heap, ret>>

Ens_GetLogitsReturn ==
    /\ prog = "Ensemble"
    /\ pc = "get_logits"
    /\ loc.member_ind = Len(ens.members)
    /\ ret' = loc.out
    /\ pc' = "idle"
    /\ UNCHANGED <<prog, exc, args, fs, loc, ens, heap, calls>>

Ens_PredictStart ==
    /\ prog \in {"Ensemble", "Ensemble.predict"}
    /\ pc = "idle"
    /\ \E B \in 1..MaxBatch, t \in {None, PyInt(1)} :
          /\ args' = [op |-> "Ensemble.predict", inputs |-> InputBatch(B), t |-> t]
          /\ loc' = [member_ind |-> 0,
                     out |-> predict_zeros(ens, InputBatch(B))]
    /\ calls' = <<>>
    /\ exc' = NoExc
    /\ ret' = None
    /\ pc' = "predict"
    /\ UNCHANGED <<prog, fs, ens, heap>>

Ens_PredictMember ==
    /\ prog \in {"Ensemble", "Ensemble.predict"}
    /\ pc = "predict"
    /\ loc.member_ind < Len(ens.members)
    /\ \E outcome \in Outcomes :
          LET member == heap[ens.members[loc.member_ind + 1]]
              r == predict_slot(ens, loc.out, loc.member_ind, args.inputs, args.t)
          IN  IF ~HasAttr(member, "predict")
              THEN /\ exc' = AttributeError(member, "predict")
                   /\ pc' = "idle"
                   /\ UNCHANGED <<loc, calls>>
              ELSE /\ calls' = Append(calls,
                                      Invoked("predict", loc.member_ind,
                                              IF args.t = None
                                              THEN <<args.inputs>>
                                              ELSE <<args.inputs, args.t>>))
                   /\ IF outcome = "raises" \/ r.exc # NoExc
                      THEN /\ exc' = IF outcome = "raises" THEN MemberRaised
                                     ELSE r.exc
                           /\ pc' = "idle"
                           /\ UNCHANGED loc
                      ELSE /\ loc' = [member_ind |-> loc.member_ind + 1,
                                      out |-> r.val]
                           /\ UNCHANGED <<pc, exc>>
    /\ UNCHANGED <<prog, args, fs, ens, heap, ret>>

Ens_PredictReturn ==
    /\ prog \in {"Ensemble", "Ensemble.predict"}
    /\ pc = "predict"
    /\ loc.member_ind = Len(ens.members)
    /\ ret' = loc.out
    /\ pc' = "idle"
    /\ UNCHANGED <<prog, exc, args, fs, loc, ens, heap, calls>>

----------------------------------------------------------------------------
(* ensemble.py: EnsembleMember.train *)

\* the classes whose instances EnsembleMember.train is run on: a member
\* class that keeps EnsembleMember._learning_rate_condition, and
\* LogitsProbabilityDistributionSubNet, which overrides it
TrainedClasses == {"EnsembleMember", "LogitsProbabilityDistributionSubNet"}

\* EnsembleMember._learning_rate_condition(epoch)
learning_rate_condition_always(epoch) == TRUE
EnsembleMember__learning_rate_condition(epoch) == FALSE

\* LogitsProbabilityDistributionSubNet._learning_rate_condition(epoch=None)
LogitsProbabilityDistributionSubNet__learning_rate_condition(epoch) == TRUE

\* self._learning_rate_condition(epoch): the method of the object's class
LearningRateCondition(cls, epoch) ==
    IF cls = "LogitsProbabilityDistributionSubNet"
    THEN LogitsProbabilityDistributionSubNet__learning_rate_condition(epoch)
    ELSE EnsembleMember__learning_rate_condition(epoch)

\* the epochs a direct call of the condition is tried with
EpochArgs == {None} \cup {PyInt(e) : e \in 1..MaxTrainEpochs}

\* self._learning_rate_condition(epoch) called on its own
EMT_Condition ==
    /\ prog = "EnsembleMember.train"
    /\ pc = "call"
    /\ \E epoch \in EpochArgs :
          /\ loc' = [op |-> "_learning_rate_condition", epoch |-> epoch]
          /\ ret' = PyBool(LearningRateCondition(args.cls, epoch))
    /\ exc' = NoExc
    /\ UNCHANGED <<prog, pc, args, fs, ens, heap, calls>>

\* EnsembleMember.train, lines 184-186: StepLR(self.optimizer, ...) refuses
\* an optimizer that is None (EnsembleMember.__init__ leaves it None, the
\* subclass constructor is to set it)
EMT_Start ==
    /\ prog = "EnsembleMember.train"
    /\ pc = "call"
    /\ IF args.optimizer = None
       THEN /\ exc' = Raise("TypeError", "NoneType is not an Optimizer")
            /\ pc' = "raised"
            /\ loc' = [op |-> "train", epoch_number |-> 1, steps |-> 0,
                       cond |-> <<>>]
       ELSE /\ exc' = NoExc
            /\ pc' = "epoch"
            /\ loc' = [op |-> "train", epoch_number |-> 1, steps |-> 0,
                       cond |-> <<>>]
    /\ ret' = None
    /\ UNCHANGED <<prog, args, fs, ens, heap, calls>>

\* one turn of "for epoch_number in range(1, num_epochs + 1)", lines 187-191:
\* _train_epoch returns or raises; scheduler.step() when the condition holds
EMT_Epoch ==
    /\ prog = "EnsembleMember.train"
    /\ pc = "epoch"
    /\ loc.epoch_number <= args.num_epochs
    /\ \E outcome \in Outcomes :
          IF outcome = "raises"
          THEN /\ exc' = MemberRaised
               /\ pc' = "raised"
               /\ UNCHANGED loc
          ELSE LET c == LearningRateCondition(args.cls, PyInt(loc.epoch_number))
               IN  /\ loc' = [loc EXCEPT !.epoch_number = @ + 1,
                                         !.steps = IF c THEN @ + 1 ELSE @,
                                         !.cond = Append(@, c)]
                   /\ UNCHANGED <<pc, exc>>
    /\ UNCHANGED <<prog, args, fs, ens, heap, calls, ret>>

\* the range is used up: train returns None
EMT_Return ==
    /\ prog = "EnsembleMember.train"
    /\ pc = "epoch"
    /\ loc.epoch_number > args.num_epochs
    /\ pc' = "end"
    /\ ret' = None
    /\ UNCHANGED <<prog, exc, args, fs, loc, ens, heap, calls>>

----------------------------------------------------------------------------
(* logits_prob_dist_subnet.py: LogitsProbabilityDistributionSubNet *)

LPDS_Kind == "LogitsProbabilityDistributionSubNet"

\* a layer_sizes list of n entries: n + 1, n, ..., 2
LayerSizes(n) == [i \in 1..n |-> n - i + 2]

\* nn.Linear(in_features, out_features)
Linear(in_features, out_features) ==
    [kind |-> "nn.Linear", in_features |-> in_features,
     out_features |-> out_features]

\* super().__init__(teacher, loss_function, device) of DistilledNet: the
\* object with what the base class sets; whether the base class sets an
\* attribute "layers" is left open
DistilledNet__init__(teacher, loss_function, device, base_has_layers) ==
    [kind |-> LPDS_Kind,
     attrs |-> {"teacher", "loss", "device", "_log"}
                  \cup (IF base_has_layers THEN {"layers"} ELSE {}),
     teacher |-> teacher, loss |-> loss_function, device |-> device,
     layers |-> <<>>, layers_1 |-> <<>>, layers_2 |-> <<>>]

\* "for i in range(len(layer_sizes) - 1): self.layers.append(nn.Linear(...))"
\* (lines 28-29 and 32-33), from turn i on
RECURSIVE LPDS_AppendLayers(_, _, _)
LPDS_AppendLayers(self, layer_sizes, i) ==
    IF i >= Len(layer_sizes) - 1
    THEN [exc |-> NoExc, self |-> self]
    ELSE IF "layers" \notin self.attrs
    THEN [exc |-> AttributeError([kind |-> LPDS_Kind], "layers"), self |-> self]
    ELSE LPDS_AppendLayers(
            [self EXCEPT !.layers =
                Append(@, Linear(layer_sizes[i + 1], layer_sizes[i + 2]))],
            layer_sizes, i + 1)

\* LogitsProbabilityDistributionSubNet.__init__
LogitsProbabilityDistributionSubNet__init__(layer_sizes_1, layer_sizes_2, teacher, base_has_layers) ==
    LET s0 == DistilledNet__init__(teacher,
                                   [kind |-> "function",
                                    name |-> "gaussian_neg_log_likelihood"],
                                   Cpu, base_has_layers)
        s1 == [s0 EXCEPT !.attrs = @ \cup {"use_hard_labels", "learning_rate",
                                          "layers_1"},
                         !.layers_1 = <<>>]
        r1 == LPDS_AppendLayers(s1, layer_sizes_1, 0)
        s2 == [r1.self EXCEPT !.attrs = @ \cup {"layers_2"}, !.layers_2 = <<>>]
        r2 == LPDS_AppendLayers(s2, layer_sizes_2, 0)
        s3 == [r2.self EXCEPT !.attrs = @ \cup {"variance_lower_bound"}]
    IN  IF r1.exc # NoExc THEN [exc |-> r1.exc, self |-> None]
        ELSE IF r2.exc # NoExc THEN [exc |-> r2.exc, self |-> None]
        ELSE IF "fc1a" \notin s3.attrs
        THEN [exc |-> AttributeError([kind |-> LPDS_Kind], "fc1a"), self |-> None]
        ELSE [exc |-> NoExc,
              self |-> [s3 EXCEPT !.attrs = @ \cup {"layers", "optimizer"}]]

\* LogitsProbabilityDistributionSubNet.forward(x)
LogitsProbabilityDistributionSubNet_forward(self, x) ==
    IF Len(self.layers_1) = 0 \/ Len(self.layers_2) = 0
    THEN [exc |-> Raise("IndexError", "index -1 is out of range"), val |-> None]
    ELSE [exc |-> NoExc,
          val |-> <<[op |-> "mean", layers |-> self.layers_1, x |-> x],
                    [op |-> "var", layers |-> self.layers_2, x |-> x,
                     variance_lower_bound |-> 0]>>]

\* net = LogitsProbabilityDistributionSubNet(layer_sizes_1, layer_sizes_2,
\* teacher) and, once constructed, net.forward(x)
LPDS_Construct ==
    /\ prog = LPDS_Kind
    /\ pc = "call"
    /\ LET r == LogitsProbabilityDistributionSubNet__init__(
                    args.layer_sizes_1, args.layer_sizes_2,
                    [kind |-> "Ensemble"], args.base_has_layers)
       IN  IF r.exc # NoExc
           THEN /\ exc' = r.exc
                /\ loc' = [self |-> None]
                /\ ret' = None
                /\ pc' = "raised"
           ELSE LET f == LogitsProbabilityDistributionSubNet_forward(
                             r.self, InputBatch(1))
                IN  /\ exc' = f.exc
                    /\ loc' = [self |-> r.self]
                    /\ ret' = f.val
                    /\ pc' = "constructed"
    /\ UNCHANGED <<prog, args, fs, ens, heap, calls>>

\* the teacher's logits for a batch, self.teacher.get_logits(inputs): a
\* (B, N, K) tensor of numbers, one tensor per seed
TeacherLogits(B, N, K, seed) ==
    [b \in 1..B |-> [n \in 1..N |-> [k \in 1..K |->
        (((seed + b) * (n + 1) + k * k * (seed + 1) + b * k) % 7) - 3]]]

\* torch.stack([logits[:, :, -1]], axis=-1): shape (B, N, 1)
StackLast(logits) ==
    [b \in DOMAIN logits |-> [n \in DOMAIN logits[b] |->
        <<logits[b][n][Len(logits[b][n])]>>]]

\* logits - last, the (B, N, 1) tensor broadcast along the last dimension
BroadcastSub(logits, last) ==
    [b \in DOMAIN logits |-> [n \in DOMAIN logits[b] |->
        [k \in DOMAIN logits[b][n] |-> logits[b][n][k] - last[b][n][1]]]]

\* scaled_logits[:, :, 0:-1]
KeepAll(tensor) == tensor
DropLast(tensor) ==
    [b \in DOMAIN tensor |-> [n \in DOMAIN tensor[b] |->
        SubSeq(tensor[b][n], 1, Len(tensor[b][n]) - 1)]]

\* LogitsProbabilityDistributionSubNet._generate_teacher_predictions, from
\* the teacher's logits on
generate_teacher_predictions(logits) ==
    LET scaled_logits == BroadcastSub(logits, StackLast(logits))
    IN  DropLast(scaled_logits)

GTP_Call ==
    /\ prog = "_generate_teacher_predictions"
    /\ pc = "call"
    /\ ret' = generate_teacher_predictions(args.logits)
    /\ exc' = NoExc
    /\ pc' = "end"
    /\ UNCHANGED <<prog, args, fs, loc, ens, heap, calls>>

----------------------------------------------------------------------------
(* uci_base.py: UCIData *)

\* the home directories os.path.expanduser finds, by "~" or "~user" prefix
UserHomes == [t \in {"~", "~alice"} |->
                 IF t = "~" THEN <<"/", "root">> ELSE <<"/", "home", "alice">>]
\* first components that are a "~" or "~user" prefix
TildeParts == {"~", "~alice", "~nosuchuser"}

\* the file_path arguments tried: strings, as their components
PathArgs ==
    {[kind |-> "str", parts |-> <<first, name>>] :
        first \in TildeParts \cup {"data"}, name \in {"a.csv", "b.csv"}}

\* the directory trees the constructor may find: which files exist
DiskStates ==
    {{}, {<<"/", "root", "a.csv">>, <<"data", "a.csv">>},
     {<<"/", "root", "a.csv">>, <<"/", "home", "alice", "b.csv">>,
      <<"data", "a.csv">>, <<"data", "b.csv">>}}

\* Path(file_path): TypeError unless file_path is a str or os.PathLike
Path(file_path) ==
    IF file_path.kind = "str"
    THEN [exc |-> NoExc, val |-> [kind |-> "Path", parts |-> file_path.parts]]
    ELSE [exc |-> Raise("TypeError",
                        "expected str, bytes or os.PathLike object, not "
                            \o file_path.kind),
          val |-> None]

\* Path.expanduser(): a leading "~" or "~user" is replaced by that user's
\* home; RuntimeError when the home cannot be determined
ExpandUserNot(path) == [exc |-> NoExc, val |-> path]
ExpandUser(path) ==
    IF Len(path.parts) > 0 /\ path.parts[1] \in TildeParts
    THEN IF path.parts[1] \in DOMAIN UserHomes
         THEN [exc |-> NoExc,
               val |-> [path EXCEPT !.parts = UserHomes[path.parts[1]]
                                                 \o Tail(path.parts)]]
         ELSE [exc |-> Raise("RuntimeError",
                             "Could not determine home directory."),
               val |-> None]
    ELSE [exc |-> NoExc, val |-> path]

\* the file is there
OnDisk(path, disk) == path.parts \in disk

\* Path.exists(): stat() of the path; an error other than "no such file"
\* is passed on, as PermissionError is when the directory "data" may not be
\* searched
Exists(path, disk, denied) ==
    IF denied /\ path.parts[1] = "data"
    THEN [exc |-> Raise("PermissionError", "Permission denied"), val |-> FALSE]
    ELSE [exc |-> NoExc, val |-> OnDisk(path, disk)]

\* UCIData._validate_file_path(file_path): log lists what is logged
UCIData__validate_file_path(file_path, disk, denied) ==
    LET p == Path(file_path)
        e == ExpandUser(p.val)
        x == Exists(e.val, disk, denied)
    IN  IF p.exc # NoExc THEN [exc |-> p.exc, val |-> None, log |-> <<>>]
        ELSE IF e.exc # NoExc THEN [exc |-> e.exc, val |-> None, log |-> <<>>]
        ELSE IF x.exc # NoExc THEN [exc |-> x.exc, val |-> None, log |-> <<>>]
        ELSE [exc |-> NoExc, val |-> e.val,
              log |-> IF ~x.val
                      THEN <<[ev |-> "log", level |-> "error",
                              msg |-> "Dataset does not exist"]>>
                      ELSE <<>>]

\* UCIData.__init__, lines 13-15: self.file_path is validated
UCI_Validate ==
    /\ prog = "UCIData"
    /\ pc = "call"
    /\ LET r == UCIData__validate_file_path(args.file_path, args.disk,
                                            args.denied)
       IN  /\ exc' = r.exc
           /\ calls' = calls \o r.log
           /\ loc' = [file_path |-> r.val, data |-> None, output_dim |-> 1,
                      seed |-> args.seed]
           /\ pc' = IF r.exc = NoExc THEN "validated" ELSE "raised"
    /\ ret' = None
    /\ UNCHANGED <<prog, args, fs, ens, heap>>

\* load_full_data() of the class constructed: UCIData's own does nothing; a
\* subclass reads the file into self.data, an (n, d) array, and raises
\* OSError when the file is missing
LoadFullData(cls, self, disk) ==
    IF cls = "UCIData" THEN [exc |-> NoExc, self |-> self]
    ELSE IF OnDisk(self.file_path, disk)
    THEN [exc |-> NoExc,
          self |-> [self EXCEPT !.data = [kind |-> "ndarray",
                                          shape |-> <<3, 2>>]]]
    ELSE [exc |-> Raise("OSError", "file not found"), self |-> self]

\* UCIData.__init__, lines 16-21
UCI_Load ==
    /\ prog = "UCIData"
    /\ pc = "validated"
    /\ LET r == LoadFullData(args.cls, loc, args.disk)
       IN  /\ calls' = Append(calls, [ev |-> "call", method |-> "load_full_data"])
           /\ IF r.exc # NoExc
              THEN /\ exc' = r.exc
                   /\ loc' = r.self
                   /\ pc' = "raised"
              ELSE IF ~HasAttr(r.self.data, "shape")
              THEN /\ exc' = AttributeError(r.self.data, "shape")
                   /\ loc' = r.self
                   /\ pc' = "raised"
              ELSE /\ exc' = NoExc
                   /\ loc' = r.self @@ [num_samples |-> r.self.data.shape[1],
                                        input_dim |-> r.self.data.shape[2] - 1]
                   /\ pc' = "end"
    /\ UNCHANGED <<prog, args, fs, ens, heap, ret>>

----------------------------------------------------------------------------
(* cifar10_dirichlet_distillation.py: train_distilled_network_dirichlet *)

\* line 31 and line 55
num_train_points == 40000
ensemble_size == 10

\* seq[start:stop] as Python and numpy slice a sequence: negative bounds
\* count from the end, bounds beyond the ends are clamped
PySliceBound(n, len) ==
    IF n < 0 THEN (IF len + n < 0 THEN 0 ELSE len + n)
    ELSE IF n > len THEN len ELSE n
PySlice(seq, start, stop) ==
    SubSeq(seq, PySliceBound(start, Len(seq)) + 1, PySliceBound(stop, Len(seq)))

\* np.load("ensemble_indices.npy") of a file of len entries: the ensemble
\* members in some order
EnsembleIndicesFile(len) == [i \in 1..len |-> len - i]

\* the training_data_indices.npy files tried
DataIndFiles == {NdArray(<<>>), NdArray(<<0>>), NdArray(<<1, 0>>)}

\* train_distilled_network_dirichlet, up to the ensemble of line 62
train_distilled_network_dirichlet(source, data_ind, rep, ensemble_indices) ==
    LET train_ind == NdArray(PySlice(data_ind.v, 0, num_train_points))
        valid_ind == NdArray(PySlice(data_ind.v, num_train_points,
                                     Len(data_ind.v)))
        train_data == Cifar10Data__init__(source, train_ind, TRUE, TRUE)
        valid_data == Cifar10Data__init__(source, valid_ind, TRUE, FALSE)
        test_data == Cifar10Data__init__(source, None, FALSE, FALSE)
        ind == PySlice(ensemble_indices, (rep - 1) * ensemble_size,
                       rep * ensemble_size)
        raised(e) == [exc |-> e, ind |-> None, ensemble |-> None]
    IN  IF train_data.exc # NoExc THEN raised(train_data.exc)
        ELSE IF valid_data.exc # NoExc THEN raised(valid_data.exc)
        ELSE IF ~HasAttr(train_data.self, "set")
        THEN raised(AttributeError(train_data.self, "set"))
        ELSE IF ~HasAttr(valid_data.self, "set")
        THEN raised(AttributeError(valid_data.self, "set"))
        ELSE IF test_data.exc # NoExc THEN raised(test_data.exc)
        ELSE IF ~HasAttr(test_data.self, "set")
        THEN raised(AttributeError(test_data.self, "set"))
        ELSE [exc |-> NoExc,
              ind |-> NdArray(ind),
              ensemble |-> [kind |-> "EnsembleWrapper", output_size |-> 10,
                            indices |-> NdArray(ind)]]

TDD_Call ==
    /\ prog = "train_distilled_network_dirichlet"
    /\ pc = "call"
    /\ LET r == train_distilled_network_dirichlet(
                    fs[C10D_File], args.data_ind, args.rep,
                    EnsembleIndicesFile(args.len))
       IN  /\ exc' = r.exc
           /\ loc' = [ind |-> r.ind, ensemble |-> r.ensemble]
    /\ ret' = None
    /\ pc' = "end"
    /\ UNCHANGED <<prog, args, fs, ens, heap, calls>>

----------------------------------------------------------------------------
(* ensemble.py: Ensemble.add_metrics *)

\* metrics.Metric(name, function)
Metric(name, function) ==
    [kind |-> "metrics.Metric", name |-> name, function |-> function]

\* the elements a metrics_list is made of: metrics (two of them under the
\* same name), an object with a name that is no Metric, and a string
MetricArgs ==
    {Metric("acc", "accuracy"), Metric("acc", "top5"), Metric("loss", "nll"),
     [kind |-> "namedtuple", name |-> "acc"],
     [kind |-> "str", v |-> "acc"]}
MetricsLists == UNION {[1..n -> MetricArgs] : n \in 0..MaxMetrics}

\* isinstance(metric, metrics.Metric)
IsMetric(metric) == metric.kind = "metrics.Metric"

\* dict[key] = value
DictSet(dict, key, value) ==
    [k \in DOMAIN dict \cup {key} |-> IF k = key THEN value ELSE dict[k]]

\* "for member in self.members: member.metrics[metric.name] = metric"
\* (lines 48-50), from member j on; h is the heap
RECURSIVE AddMetricToMembers(_, _, _, _)
AddMetricToMembers(self, h, metric, j) ==
    IF j > Len(self.members) THEN [exc |-> NoExc, heap |-> h, log |-> <<>>]
    ELSE LET ref == self.members[j]
         IN  IF ~HasAttr(h[ref], "metrics")
             THEN [exc |-> AttributeError(h[ref], "metrics"), heap |-> h,
                   log |-> <<>>]
             ELSE LET r == AddMetricToMembers(
                               self,
                               [h EXCEPT ![ref].metrics =
                                   DictSet(@, metric.name, metric)],
                               metric, j + 1)
                  IN  [r EXCEPT !.log =
                          <<[ev |-> "log", level |-> "info",
                             msg |-> "Adding metric: " \o metric.name]>> \o @]

\* Ensemble.add_metrics(metrics_list), from element i on
RECURSIVE add_metrics(_, _, _, _)
add_metrics(self, h, metrics_list, i) ==
    IF i > Len(metrics_list) THEN [exc |-> NoExc, heap |-> h, log |-> <<>>]
    ELSE LET metric == metrics_list[i]
             one == IF IsMetric(metric)
                    THEN AddMetricToMembers(self, h, metric, 1)
                    ELSE IF ~HasAttr(metric, "name")
                    THEN [exc |-> AttributeError(metric, "name"), heap |-> h,
                          log |-> <<>>]
                    ELSE [exc |-> NoExc, heap |-> h,
                          log |-> <<[ev |-> "log", level |-> "error",
                                     msg |-> "Metric " \o metric.name
                                        \o " does not inherit from metric.Metric."]>>]
         IN  IF one.exc # NoExc THEN one
             ELSE LET r == add_metrics(self, one.heap, metrics_list, i + 1)
                  IN  [r EXCEPT !.log = one.log \o @]

\* the one call of add_metrics of the run, on the ensemble built so far
Ens_AddMetrics ==
    /\ prog = "Ensemble.add_metrics"
    /\ pc = "idle"
    /\ pc' = "end"
    /\ \E metrics_list \in MetricsLists :
          LET r == add_metrics(ens, heap, metrics_list, 1)
          IN  /\ args' = [op |-> "Ensemble.add_metrics",
                          metrics_list |-> metrics_list]
              /\ heap' = r.heap
              /\ exc' = r.exc
              /\ calls' = r.log
    /\ loc' = [before |-> heap]
    /\ ret' = None
    /\ UNCHANGED <<prog, fs, ens>>

----------------------------------------------------------------------------
(* ensemble.py: Ensemble.add_multiple, Ensemble.load_ensemble *)

\* the constructors add_multiple is given: of a member, of a member whose
\* loss_function is None (EnsembleMember.__init__ raises), of another object
Constructors == {"member", "member without loss", "object"}

\* constructor()
Construct(self, constructor) ==
    IF constructor = "object"
    THEN [exc |-> NoExc, self |-> [kind |-> "object"]]
    ELSE EnsembleMember__init__("Member", self.output_size,
                                IF constructor = "member" THEN LossFn ELSE None,
                                Cpu)

\* Ensemble.add_multiple(number_of, constructor), from turn i of
\* "for _ in range(number_of)" on; constructed counts the constructor calls
RECURSIVE add_multiple(_, _, _, _, _)
add_multiple(self, h, number_of, constructor, i) ==
    IF i >= number_of
    THEN [exc |-> NoExc, self |-> self, heap |-> h, constructed |-> 0]
    ELSE LET c == Construct(self, constructor)
             a == add_member(self, Len(h) + 1, c.self)
         IN  IF c.exc # NoExc
             THEN [exc |-> c.exc, self |-> self, heap |-> h, constructed |-> 1]
             ELSE IF a.exc # NoExc
             THEN [exc |-> a.exc, self |-> a.self, heap |-> Append(h, c.self),
                   constructed |-> 1]
             ELSE LET r == add_multiple(a.self, Append(h, c.self), number_of,
                                        constructor, i + 1)
                  IN  [r EXCEPT !.constructed = @ + 1]

Ens_AddMultiple ==
    /\ prog = "Ensemble.load_ensemble"
    /\ pc = "idle"
    /\ \E number_of \in 0..MaxMembers, constructor \in Constructors :
          /\ Len(heap) + number_of <= MaxObjs
          /\ Len(ens.members) + number_of <= MaxMembers
          /\ LET r == add_multiple(ens, heap, number_of, constructor, 0)
             IN  /\ args' = [op |-> "Ensemble.add_multiple",
                             number_of |-> number_of,
                             constructor |-> constructor]
                 /\ ens' = r.self
                 /\ heap' = r.heap
                 /\ exc' = r.exc
                 /\ loc' = [before |-> ens, constructed |-> r.constructed]
    /\ ret' = None
    /\ UNCHANGED <<prog, pc, fs, calls>>

\* torch.load(filepath): the dict save_ensemble wrote, its members in key
\* order "ensemble_member_0", "ensemble_member_1", ...; no such file raises
CheckPoints(output_size) ==
    {Absent} \cup
    {[kind |-> "dict",
      v |-> [i \in 1..n |->
                EnsembleMember__init__("Member", output_size, LossFn,
                                       Cpu).self]] :
        n \in 0..MaxMembers}

\* "for i, key in enumerate(check_point)" (lines 146-155), from index i on
RECURSIVE LoadMembers(_, _, _, _, _)
LoadMembers(self, h, check_point, num_members, i) ==
    IF i >= Len(check_point.v) THEN [exc |-> NoExc, self |-> self, heap |-> h]
    ELSE IF num_members # None /\ i = num_members.v
    THEN [exc |-> NoExc, self |-> self, heap |-> h]
    ELSE LET member == check_point.v[i + 1]
             a == add_member(self, Len(h) + 1, member)
         IN  IF a.exc # NoExc
             THEN [exc |-> a.exc, self |-> a.self, heap |-> Append(h, member)]
             ELSE LoadMembers(a.self, Append(h, member), check_point,
                              num_members, i + 1)

\* Ensemble.load_ensemble(filepath, num_members=None)
load_ensemble(self, h, check_point, num_members) ==
    IF check_point = Absent
    THEN [exc |-> Raise("FileNotFoundError", "No such file or directory"),
          self |-> self, heap |-> h]
    ELSE LoadMembers(self, h, check_point, num_members, 0)

Ens_LoadEnsemble ==
    /\ prog = "Ensemble.load_ensemble"
    /\ pc = "idle"
    /\ \E check_point \in CheckPoints(ens.output_size),
          num_members \in {None} \cup {PyInt(n) : n \in -1..(MaxMembers + 1)} :
          LET r == load_ensemble(ens, heap, check_point, num_members)
          IN  /\ Len(r.heap) <= MaxObjs
              /\ Len(r.self.members) <= MaxMembers
              /\ args' = [op |-> "Ensemble.load_ensemble",
                          check_point |-> check_point,
                          num_members |-> num_members]
              /\ ens' = r.self
              /\ heap' = r.heap
              /\ exc' = r.exc
    /\ loc' = [before |-> ens]
    /\ ret' = None
    /\ UNCHANGED <<prog, pc, fs, calls>>

----------------------------------------------------------------------------
(* The runs *)

Files == {EP_File, PD_File, ECD_File, PCD_File, C10D_File}
NoFiles == [name \in Files |-> Absent]

\* ensemble_predictions.h5 as a run may find it: missing, empty (created but
\* never filled), or laid out for some data set sizes
SourceFiles ==
    {Absent, H5Close(H5Create)}
        \cup {InterchangeFile(n, m) : n \in 1..MaxSamples, m \in 1..MaxSamples}

InitCommon ==
    /\ exc = NoExc
    /\ loc = None
    /\ heap = <<>>
    /\ calls = <<>>
    /\ ret = None

Init ==
    /\ InitCommon
    /\ \/ /\ prog = "ensemble_predictions"
          /\ pc = "call"
          /\ args \in [torch_data : BOOLEAN, n_train : 1..MaxSamples,
                       n_test : 1..MaxSamples]
          /\ fs \in {[NoFiles EXCEPT ![C10D_File] = f] :
                        f \in {Absent, InterchangeFile(2, 1)}}
          /\ ens = None
       \/ /\ prog = "ensemble_predictions_corrupted_data"
          /\ pc = "call"
          /\ args \in [torch_data : BOOLEAN, takes_any : BOOLEAN,
                       n : 1..MaxSamples]
          /\ fs = NoFiles
          /\ ens = None
       \/ /\ prog = "predictions_dirichlet"
          /\ pc = "call"
          /\ args = [op |-> "predictions_dirichlet"]
          /\ fs \in {[NoFiles EXCEPT ![C10D_File] = f] : f \in SourceFiles}
          /\ ens = None
       \/ /\ prog = "predictions_corrupted_data_dirichlet"
          /\ pc = "call"
          /\ args \in [n : 1..MaxSamples]
          /\ fs = NoFiles
          /\ ens = None
       \/ /\ prog = "Cifar10Data"
          /\ pc = "call"
          /\ args = [op |-> "Cifar10Data"]
          /\ fs \in {[NoFiles EXCEPT ![C10D_File] = f] : f \in SourceFiles}
          /\ ens = None
       \/ /\ prog = "EnsembleMember.train"
          /\ pc = "call"
          /\ args \in [cls : TrainedClasses, num_epochs : 0..MaxTrainEpochs,
                       optimizer : {None, [kind |-> "torch.optim.Adam"]}]
          /\ fs = NoFiles
          /\ ens = None
       \/ /\ prog = LPDS_Kind
          /\ pc = "call"
          /\ \E n1 \in 0..MaxLayerSizes, n2 \in 0..MaxLayerSizes,
                base_has_layers \in BOOLEAN :
                args = [layer_sizes_1 |-> LayerSizes(n1),
                        layer_sizes_2 |-> LayerSizes(n2),
                        base_has_layers |-> base_has_layers]
          /\ fs = NoFiles
          /\ ens = None
       \/ /\ prog = "_generate_teacher_predictions"
          /\ pc = "call"
          /\ \E B \in 1..MaxLogitB, N \in 1..MaxLogitN, K \in 1..MaxLogitK,
                seed \in 0..MaxSeed :
                args = [logits |-> TeacherLogits(B, N, K, seed)]
          /\ fs = NoFiles
          /\ ens = None
       \/ /\ prog = "UCIData"
          /\ pc = "call"
          /\ args \in [cls : {"UCIData", "subclass"}, file_path : PathArgs,
                       disk : DiskStates, denied : {FALSE}, seed : {0}]
          /\ fs = NoFiles
          /\ ens = None
       \/ /\ prog = "train_distilled_network_dirichlet"
          /\ pc = "call"
          /\ args \in [rep : 1..MaxRep, len : 0..MaxIndices,
                       data_ind : DataIndFiles]
          /\ fs \in {[NoFiles EXCEPT ![C10D_File] = f] : f \in SourceFiles}
          /\ ens = None
       \/ /\ prog \in EnsembleRuns
          /\ pc = "idle"
          /\ args = [op |-> "Ensemble.__init__"]
          /\ fs = NoFiles
          /\ \E output_size \in 1..MaxK : ens = Ensemble__init__(output_size)

Next ==
    \/ EP_Call
    \/ PD_Call
    \/ ECD_Call
    \/ PCD_Open
    \/ PCD_Corruption
    \/ PCD_Intensity
    \/ PCD_Batch
    \/ PCD_Write
    \/ PCD_Close
    \/ C10D_Construct
    \/ C10D_Len
    \/ C10D_GetItem
    \/ EM_Construct
    \/ Other_Construct
    \/ Ens_AddMember
    \/ Ens_TrainStart
    \/ Ens_TrainCall
    \/ Ens_TrainReturn
    \/ Ens_TrainEnd
    \/ Ens_GetLogitsStart
    \/ Ens_GetLogitsMember
    \/ Ens_GetLogitsReturn
    \/ Ens_PredictStart
    \/ Ens_PredictMember
    \/ Ens_PredictReturn
    \/ EMT_Condition
    \/ EMT_Start
    \/ EMT_Epoch
    \/ EMT_Return
    \/ LPDS_Construct
    \/ GTP_Call
    \/ UCI_Validate
    \/ UCI_Load
    \/ TDD_Call
    \/ Ens_AddMetrics
    \/ Ens_AddMultiple
    \/ Ens_LoadEnsemble

Spec == Init /\ [][Next]_vars


----------------------------------------------------------------------------
(* Claims about the HDF5 exports *)

\* the samples of a data set as the export scripts see them
C_Img(label, n) == [i \in 1..n |-> <<"img", label, i>>]
C_Target(label, n) == [i \in 1..n |-> <<"target", label, i>>]
C_Of(what, xs) == [i \in DOMAIN xs |-> <<what, xs[i]>>]

\* C1: for either value of torch_data, ensemble_predictions runs to
\* completion and leaves a file with exactly the groups "test" and "train",
\* each holding exactly "data", "logits", "predictions" and "targets", every
\* dataset the concatenation over all batches of that data set in loader
\* order (one target per sample).
C1_RunsAndWritesBothGroups ==
    (prog = "ensemble_predictions" /\ pc = "end") =>
        /\ exc = NoExc
        /\ fs[EP_File] # Absent
        /\ fs[EP_File].groups = {<<"test">>, <<"train">>}
        /\ \A label \in {"test", "train"} :
              LET n == IF label = "train" THEN args.n_train ELSE args.n_test
                  d == fs[EP_File].dsets
              IN  /\ H5Names(fs[EP_File], <<label>>)
                        = {"data", "logits", "predictions", "targets"}
                  /\ d[<<<<label>>, "data">>].v = C_Img(label, n)
                  /\ d[<<<<label>>, "logits">>].v = C_Of("logits", C_Img(label, n))
                  /\ d[<<<<label>>, "predictions">>].v
                        = C_Of("predictions", C_Img(label, n))
                  /\ d[<<<<label>>, "targets">>].v = C_Target(label, n)

\* C2: writer and reader agree on the layout: the group Cifar10Data reads
\* ("train" when train=True, "test" when train=False) and every dataset it
\* reads from it ("data", "predictions", "logits", "targets") is one that
\* ensemble_predictions wrote, under that group and name, into
\* ensemble_predictions.h5; so a Cifar10Data built on the file
\* ensemble_predictions left finds them all.
C2_ReaderFindsWhatWriterWrote ==
    (/\ prog = "ensemble_predictions"
     /\ pc \in {"constructed", "raised"}
     /\ args.data_dir = EP_data_dir) =>
        /\ fs[EP_File] # Absent
        /\ C10D_Group(args.train) \in fs[EP_File].groups
        /\ \A name \in {"data", "predictions", "logits", "targets"} :
              <<C10D_Group(args.train), name>> \in DOMAIN fs[EP_File].dsets
        /\ exc.type # "KeyError"

\* C3: predictions_dirichlet, given a laid-out ensemble_predictions.h5,
\* stores under each of the groups "train" and "test" the datasets "data",
\* "predictions", "logits" and "targets" plus the dataset "alpha".
C3_DirichletGroupsHoldAlpha ==
    (/\ prog = "predictions_dirichlet"
     /\ pc = "end"
     /\ fs[C10D_File] # Absent
     /\ fs[C10D_File].groups = {<<"test">>, <<"train">>}) =>
        /\ exc = NoExc
        /\ fs[PD_File] # Absent
        /\ {<<"test">>, <<"train">>} \subseteq fs[PD_File].groups
        /\ \A label \in {"test", "train"} :
              {"data", "predictions", "logits", "targets", "alpha"}
                  \subseteq H5Names(fs[PD_File], <<label>>)

\* the 18 corruptions of CIFAR-10-C the claims speak of
C_Corruptions ==
    {"brightness", "contrast", "defocus_blur", "elastic_transform", "fog",
     "frost", "gaussian_blur", "gaussian_noise", "glass_blur", "impulse_noise",
     "motion_blur", "pixelate", "saturate", "shot_noise", "snow", "spatter",
     "speckle_noise", "zoom_blur"}
C_SubName(k) ==
    CASE k = 0 -> "intensity_0" [] k = 1 -> "intensity_1"
      [] k = 2 -> "intensity_2" [] k = 3 -> "intensity_3"
      [] k = 4 -> "intensity_4" [] k = 5 -> "intensity_5"
C_CorruptedImg(c, k, n) == [i \in 1..n |-> <<"img", c, k, i>>]
C_CorruptedTarget(c, k, n) == [i \in 1..n |-> <<"target", c, k, i>>]

\* C4: ensemble_predictions_corrupted_data creates, for each of the 18
\* corruptions and each intensity 1..5, exactly one sub-group
\* "intensity_<k>" under the corruption's group, holding "data",
\* "predictions", "logits" and "targets" concatenated over the batches of
\* that data set and only of it; no group is created twice, and the file is
\* closed after the last corruption.
C4_CorruptedSubGroups ==
    (prog = "ensemble_predictions_corrupted_data" /\ pc = "end") =>
        /\ exc = NoExc
        /\ fs[ECD_File] # Absent
        /\ ~fs[ECD_File].open
        /\ fs[ECD_File].groups
              = {<<c>> : c \in C_Corruptions}
                  \cup {<<c, C_SubName(k)>> : c \in C_Corruptions, k \in 1..5}
        /\ \A c \in C_Corruptions, k \in 1..5 :
              LET path == <<c, C_SubName(k)>>
                  d == fs[ECD_File].dsets
                  img == C_CorruptedImg(c, k, args.n)
              IN  /\ H5Names(fs[ECD_File], path)
                        = {"data", "predictions", "logits", "targets"}
                  /\ d[<<path, "data">>].v = img
                  /\ d[<<path, "predictions">>].v = C_Of("predictions", img)
                  /\ d[<<path, "logits">>].v = C_Of("logits", img)
                  /\ d[<<path, "targets">>].v = C_CorruptedTarget(c, k, args.n)

\* the intensities of a group of predictions_corrupted_data_dirichlet
C5_Intensities(c) == IF c = "test" THEN {0} ELSE 1..5

\* C5: predictions_corrupted_data_dirichlet never raises; it creates one
\* group per entry of its corruption list (19 groups), "test" with the only
\* sub-group "intensity_0" and every other one with exactly "intensity_1"
\* .. "intensity_5"; each sub-group holds "predictions", "targets" and
\* "alpha" accumulated over all batches of that data set only (the
\* accumulators are empty when the batches of an intensity start), and the
\* file is closed after the last group.
C5_DirichletCorruptedExport ==
    (prog = "predictions_corrupted_data_dirichlet") =>
        /\ exc = NoExc
        /\ (pc = "batch" /\ loc.j = 0) =>
              (loc.acc.predictions = <<>> /\ loc.acc.targets = <<>>
                 /\ loc.acc.alpha = <<>>)
        /\ (pc # "call") =>
              \A c \in C_Corruptions \cup {"test"}, k \in 0..5 :
                 LET path == <<c, C_SubName(k)>>
                     d == fs[PCD_File].dsets
                     img == C_CorruptedImg(c, k, args.n)
                 IN  /\ (path \in fs[PCD_File].groups) => (k \in C5_Intensities(c))
                     /\ (<<path, "predictions">> \in DOMAIN d) =>
                           d[<<path, "predictions">>].v = C_Of("probs", img)
                     /\ (<<path, "targets">> \in DOMAIN d) =>
                           d[<<path, "targets">>].v = C_CorruptedTarget(c, k, args.n)
                     /\ (<<path, "alpha">> \in DOMAIN d) =>
                           d[<<path, "alpha">>].v = C_Of("alpha", img)
        /\ (pc = "end") =>
              /\ ~fs[PCD_File].open
              /\ Cardinality({g \in fs[PCD_File].groups : Len(g) = 1}) = 19
              /\ fs[PCD_File].groups
                    = {<<c>> : c \in C_Corruptions \cup {"test"}}
                        \cup {<<"test", "intensity_0">>}
                        \cup {<<c, C_SubName(k)>> : c \in C_Corruptions, k \in 1..5}
              /\ \A g \in {h \in fs[PCD_File].groups : Len(h) = 2} :
                    H5Names(fs[PCD_File], g) = {"predictions", "targets", "alpha"}
              /\ \A g \in {h \in fs[PCD_File].groups : Len(h) = 1} :
                    H5Names(fs[PCD_File], g) = {}

\* C5 happens: the export of data sets of several batches has ended
C5_Witness ==
    /\ prog = "predictions_corrupted_data_dirichlet"
    /\ pc = "end"
    /\ exc = NoExc
    /\ args.n > BatchSize
    /\ <<<<"zoom_blur", "intensity_5">>, "alpha">> \in DOMAIN fs[PCD_File].dsets


----------------------------------------------------------------------------
(* Claims about Cifar10Data *)

\* the group a Cifar10Data(train=...) is to read, and its arrays in the file
C6_Label == IF args.train THEN "train" ELSE "test"
C6_Rows ==
    Len(fs[C10D_filepath(args.data_dir)].dsets[<<<<C6_Label>>, "data">>].v)

\* the original sample (0-based) behind position i of the data set: ind[i]
\* when an index list was given, i otherwise; negative numbers count from
\* the end as Python's do
C6_FromEnd(i, n) == IF i < 0 THEN i + n ELSE i
C6_Selected == IF args.ind = None THEN C6_Rows ELSE Len(args.ind.v)
C6_Original(i) ==
    IF args.ind = None THEN C6_FromEnd(i, C6_Rows)
    ELSE C6_FromEnd(args.ind.v[C6_FromEnd(i, C6_Selected) + 1], C6_Rows)

\* the image an item holds, under the conversions of __getitem__
C6_ImageOf(item) ==
    IF args.augmentation THEN item[1][1].of.of.of.of ELSE item[1][1].of.of

\* C6: Cifar10Data keeps its four arrays aligned: constructed with an index
\* list ind, images, predictions, logits and targets are all restricted by
\* the same ind; len(dataset) is the number of selected samples; for every
\* valid index i, dataset[i] returns ((image, predictions, logits), target)
\* that all come from original sample ind[i], and from sample i when ind is
\* None.
C6_ArraysAligned ==
    (prog = "Cifar10Data" /\ pc \in {"constructed", "len", "item"}) =>
        /\ Len(loc.self.data[1]) = C6_Selected
        /\ Len(loc.self.data[2]) = C6_Selected
        /\ Len(loc.self.data[3]) = C6_Selected
        /\ Len(loc.self.targets) = C6_Selected
        /\ loc.self.input_size = C6_Selected
        /\ (pc = "len") => (ret = C6_Selected)
        /\ (pc = "item" /\ IndexOK(loc.index, C6_Selected)) =>
              LET s == C6_Original(loc.index) + 1
                  img == <<"img", C6_Label, s>>
              IN  /\ exc = NoExc
                  /\ C6_ImageOf(ret) = img
                  /\ ret[1][2].of = <<"predictions", img>>
                  /\ ret[1][3].of = <<"logits", img>>
                  /\ ret[2].of = <<"target", C6_Label, s>>

\* C6 happens: an item of a data set restricted by two different indices,
\* the later sample first
C6_Witness ==
    /\ prog = "Cifar10Data"
    /\ pc = "item"
    /\ exc = NoExc
    /\ args.ind # None
    /\ Len(args.ind.v) = 2
    /\ args.ind.v[1] > args.ind.v[2]
    /\ args.ind.v[2] >= 0
    /\ loc.index = 1

----------------------------------------------------------------------------
(* Claims about Ensemble and EnsembleMember *)

\* the last operation, named op, has returned normally
C_Returned(op) ==
    prog \in {"Ensemble", "Ensemble.predict"} /\ pc = "idle" /\ args.op = op /\ exc = NoExc

\* C7: Ensemble.get_logits and Ensemble.predict return a (B, N, K) result,
\* N the current number of members and K = output_size, whose slot n holds
\* the output of the n-th member in insertion order (member.forward(inputs);
\* member.predict(inputs), or member.predict(inputs, t) when t is given);
\* each member is invoked exactly once per call and no slot keeps its zero
\* initial value.
C7_SlotPerMember ==
    /\ C_Returned("Ensemble.get_logits") =>
          /\ Len(ret) = Len(args.inputs)
          /\ \A b \in DOMAIN ret :
                /\ Len(ret[b]) = Len(ens.members)
                /\ \A n \in DOMAIN ret[b] :
                      /\ Len(ret[b][n]) = ens.output_size
                      /\ \A k \in DOMAIN ret[b][n] :
                            /\ ret[b][n][k] # Zero
                            /\ ret[b][n][k]
                                  = [op |-> "forward", member |-> ens.members[n],
                                     x |-> args.inputs[b], k |-> k]
          /\ Len(calls) = Len(ens.members)
          /\ \A n \in DOMAIN calls :
                /\ calls[n].slot = n - 1
                /\ calls[n].member = ens.members[n]
                /\ calls[n].method = "forward"
                /\ calls[n].with = <<args.inputs>>
    /\ C_Returned("Ensemble.predict") =>
          /\ Len(ret) = Len(args.inputs)
          /\ \A b \in DOMAIN ret :
                /\ Len(ret[b]) = Len(ens.members)
                /\ \A n \in DOMAIN ret[b] :
                      /\ Len(ret[b][n]) = ens.output_size
                      /\ \A k \in DOMAIN ret[b][n] :
                            /\ ret[b][n][k] # Zero
                            /\ ret[b][n][k]
                                  = [op |-> "predict", member |-> ens.members[n],
                                     x |-> args.inputs[b], t |-> args.t, k |-> k]
          /\ Len(calls) = Len(ens.members)
          /\ \A n \in DOMAIN calls :
                /\ calls[n].slot = n - 1
                /\ calls[n].member = ens.members[n]
                /\ calls[n].method = "predict"
                /\ calls[n].with = IF args.t = None THEN <<args.inputs>>
                                   ELSE <<args.inputs, args.t>>

\* C7 happens: predict with t given has returned from an ensemble of two
\* different members
C7_Witness ==
    /\ C_Returned("Ensemble.predict")
    /\ args.t # None
    /\ Len(args.inputs) > 1
    /\ Len(ens.members) >= 2
    /\ ens.members[1] # ens.members[2]
    /\ Len(calls) = Len(ens.members)

\* C8: Ensemble.add_member rejects a new_member that is no EnsembleMember:
\* it raises ValueError("Ensemble member must be an EnsembleMember
\* subclass") and leaves members and size unchanged; only EnsembleMember
\* instances are ever appended.
C8_RejectsOtherObjects ==
    [][(Ens_AddMember /\ ~IsEnsembleMember(heap[args'.new_member])) =>
          /\ exc' = Raise("ValueError",
                          "Ensemble member must be an EnsembleMember subclass")
          /\ ens'.members = ens.members
          /\ ens'.size = ens.size]_vars

\* C9: constructing an EnsembleMember with loss_function=None raises
\* ValueError("Must assign proper loss function to child.loss."); with any
\* other loss_function the constructor completes with metrics an empty dict
\* and optimizer None.
C9_LossFunctionRequired ==
    (prog = "Ensemble" /\ args.op = "EnsembleMember.__init__") =>
        IF args.loss_function = None
        THEN /\ exc = Raise("ValueError",
                            "Must assign proper loss function to child.loss.")
             /\ ret = None
        ELSE /\ exc = NoExc
             /\ ret.loss = args.loss_function
             /\ ret.metrics = <<>>
             /\ DOMAIN ret.metrics = {}
             /\ ret.optimizer = None

\* C9 happens: a constructor call with loss_function=None has raised
C9_Witness ==
    /\ prog = "Ensemble"
    /\ args.op = "EnsembleMember.__init__"
    /\ args.loss_function = None
    /\ exc.type = "ValueError"

\* C10: Ensemble.train trains the members strictly one after another in
\* insertion order: the training of member i+1 starts only after that of
\* member i has returned, no two members train at the same time, each
\* member's train(train_loader, num_epochs, validation_loader) is called at
\* most once, and exactly once by the time Ensemble.train returns.
C10_TrainsOneAfterAnother ==
    (prog = "Ensemble" /\ args.op = "Ensemble.train") =>
        /\ Cardinality(loc.inside) <= 1
        /\ \A p \in DOMAIN calls :
              /\ calls[p].ev = IF p % 2 = 1 THEN "call" ELSE "return"
              /\ calls[p].slot = (p - 1) \div 2
              /\ calls[p].member = ens.members[calls[p].slot + 1]
              /\ calls[p].method = "train"
              /\ (calls[p].ev = "call") =>
                    calls[p].with = <<args.train_loader, args.num_epochs,
                                      args.validation_loader>>
        /\ (pc = "idle" /\ exc = NoExc) =>
              /\ Len(calls) = 2 * Len(ens.members)
              /\ \A n \in 1..Len(ens.members) :
                    Cardinality({p \in DOMAIN calls :
                                    calls[p].ev = "call" /\ calls[p].slot = n - 1}) = 1

\* C10 happens: Ensemble.train has returned from an ensemble of several
\* members
C10_Witness ==
    /\ C_Returned("Ensemble.train")
    /\ Len(ens.members) >= 2
    /\ Len(calls) = 2 * Len(ens.members)

\* the run of EnsembleMember.train on an instance of class cls is at or past
\* its loop
C_Training(cls) ==
    /\ prog = "EnsembleMember.train"
    /\ args.cls = cls
    /\ loc # None
    /\ loc.op = "train"

\* C11: for an EnsembleMember that does not override
\* _learning_rate_condition the condition returns False for every epoch, so
\* EnsembleMember.train never calls the scheduler's step(), whatever
\* num_epochs is.
C11_DefaultNeverSteps ==
    /\ C_Training("EnsembleMember") =>
          /\ loc.steps = 0
          /\ \A e \in DOMAIN loc.cond : loc.cond[e] = FALSE
    /\ (/\ prog = "EnsembleMember.train"
        /\ args.cls = "EnsembleMember"
        /\ loc # None
        /\ loc.op = "_learning_rate_condition") => ret = PyBool(FALSE)

\* C11 happens: train has returned after several epochs, the condition
\* evaluated in each
C11_Witness ==
    /\ C_Training("EnsembleMember")
    /\ pc = "end"
    /\ args.num_epochs >= 2
    /\ Len(loc.cond) = args.num_epochs

\* C12: LogitsProbabilityDistributionSubNet._learning_rate_condition returns
\* False for every epoch, epoch=None included, so training such a network
\* never steps the learning-rate scheduler.
C12_SubNetNeverSteps ==
    /\ C_Training("LogitsProbabilityDistributionSubNet") =>
          /\ loc.steps = 0
          /\ \A e \in DOMAIN loc.cond : loc.cond[e] = FALSE
    /\ (/\ prog = "EnsembleMember.train"
        /\ args.cls = "LogitsProbabilityDistributionSubNet"
        /\ loc # None
        /\ loc.op = "_learning_rate_condition") => ret = PyBool(FALSE)

\* C13: the constructor of LogitsProbabilityDistributionSubNet builds two
\* sub-networks: whenever both size lists have at least two entries, after
\* construction layers_1 holds len(layer_sizes_1)-1 linear layers and
\* layers_2 holds len(layer_sizes_2)-1, so that forward(x) can index
\* layers_1[-1] and layers_2[-1] and returns a (mean, var) pair.
C13_TwoSubNetworks ==
    (/\ prog = LPDS_Kind
     /\ pc # "call"
     /\ Len(args.layer_sizes_1) >= 2
     /\ Len(args.layer_sizes_2) >= 2) =>
        /\ pc = "constructed"
        /\ exc = NoExc
        /\ Len(loc.self.layers_1) = Len(args.layer_sizes_1) - 1
        /\ Len(loc.self.layers_2) = Len(args.layer_sizes_2) - 1
        /\ \A i \in DOMAIN loc.self.layers_1 :
              loc.self.layers_1[i] = Linear(args.layer_sizes_1[i],
                                            args.layer_sizes_1[i + 1])
        /\ \A i \in DOMAIN loc.self.layers_2 :
              loc.self.layers_2[i] = Linear(args.layer_sizes_2[i],
                                            args.layer_sizes_2[i + 1])
        /\ Len(ret) = 2

\* C17: _generate_teacher_predictions returns the teacher logits scaled
\* against the last class: for logits of shape (B, N, K) the result has
\* shape (B, N, K-1) and entry [b, n, k] is logits[b, n, k] -
\* logits[b, n, K-1] for every k < K-1; the last column is dropped.
C17_ScaledAgainstLastClass ==
    (prog = "_generate_teacher_predictions" /\ pc = "end") =>
        LET logits == args.logits
        IN  /\ DOMAIN ret = DOMAIN logits
            /\ \A b \in DOMAIN logits :
                  /\ DOMAIN ret[b] = DOMAIN logits[b]
                  /\ \A n \in DOMAIN logits[b] :
                        LET K == Len(logits[b][n])
                        IN  /\ Len(ret[b][n]) = K - 1
                            /\ \A k \in 1..(K - 1) :
                                  ret[b][n][k] = logits[b][n][k] - logits[b][n][K]

\* C17 happens: scaled logits were returned for several members and classes,
\* with a last column that is not zero and an entry changed by the scaling
C17_Witness ==
    /\ prog = "_generate_teacher_predictions"
    /\ pc = "end"
    /\ Len(args.logits) >= 2
    /\ Len(args.logits[1]) >= 2
    /\ Len(args.logits[1][1]) >= 3
    /\ args.logits[1][1][3] # 0
    /\ ret[1][1][1] # args.logits[1][1][1]
    /\ \E b \in DOMAIN args.logits : \E n \in DOMAIN args.logits[b] :
          args.logits[b][n][3] # args.logits[1][1][3]

\* _validate_file_path has run in the constructor of a UCIData
C14_Validated == prog = "UCIData" /\ pc # "call"

\* the "Dataset does not exist" errors logged so far
C14_Logged ==
    {p \in DOMAIN calls :
        calls[p] = [ev |-> "log", level |-> "error",
                    msg |-> "Dataset does not exist"]}

\* C14 as stated: UCIData._validate_file_path never raises, whatever
\* file_path is; a missing path is logged ("Dataset does not exist"), the
\* user-expanded Path is returned and construction goes on to
\* load_full_data.
C14_NeverRaises ==
    C14_Validated =>
        /\ pc = "raised" => \E p \in DOMAIN calls : calls[p].ev = "call"
        /\ loc.file_path # None

\* C14, amended: for a file_path that is a string whose "~" or "~user"
\* prefix, if it has one, names a user with a home directory, and whose
\* directories may be searched, _validate_file_path does not raise: it returns the user-expanded Path,
\* logs the error "Dataset does not exist" exactly when that path does not
\* exist, and construction goes on to load_full_data.
C14_MissingFileOnlyLogged ==
    (/\ C14_Validated
     /\ args.file_path.kind = "str"
     /\ args.file_path.parts[1] \in TildeParts
            => args.file_path.parts[1] \in DOMAIN UserHomes
     /\ ~(args.denied /\ args.file_path.parts[1] = "data")) =>
        /\ loc.file_path.kind = "Path"
        /\ loc.file_path.parts =
              IF args.file_path.parts[1] \in TildeParts
              THEN UserHomes[args.file_path.parts[1]] \o Tail(args.file_path.parts)
              ELSE args.file_path.parts
        /\ Cardinality(C14_Logged) =
              IF loc.file_path.parts \in args.disk THEN 0 ELSE 1
        /\ pc = "validated" => exc = NoExc /\ Len(calls) = Cardinality(C14_Logged)
        /\ pc # "validated" =>
              calls[Len(calls)] = [ev |-> "call", method |-> "load_full_data"]

\* C14 happens: a "~user" path that expands to a missing file was validated,
\* the error logged and load_full_data called
C14_Witness ==
    /\ C14_Validated
    /\ args.file_path.kind = "str"
    /\ args.file_path.parts[1] = "~alice"
    /\ loc.file_path.parts \notin args.disk
    /\ args.disk # {}
    /\ Cardinality(C14_Logged) = 1
    /\ Len(calls) = 2

\* C15: in train_distilled_network_dirichlet the ensemble used for
\* repetition rep (rep >= 1) consists of exactly ensemble_size = 10 member
\* indices, the positions (rep-1)*10 .. rep*10-1 of ensemble_indices.npy, so
\* that the blocks of two repetitions never overlap. Stated for runs that
\* find a laid-out ensemble_predictions.h5, training indices inside it and an
\* index file long enough for the repetition.
C15_TenIndicesPerRepetition ==
    (/\ prog = "train_distilled_network_dirichlet"
     /\ pc = "end"
     /\ args.rep >= 1
     /\ args.len >= args.rep * ensemble_size
     /\ fs[C10D_File] # Absent
     /\ fs[C10D_File].groups = {<<"test">>, <<"train">>}
     /\ \A k \in DOMAIN args.data_ind.v :
           IndexOK(args.data_ind.v[k],
                   Len(fs[C10D_File].dsets[<<<<"train">>, "data">>].v))) =>
        /\ exc = NoExc
        /\ loc.ensemble # None
        /\ loc.ensemble.indices.v =
              [j \in 1..ensemble_size |->
                  EnsembleIndicesFile(args.len)[(args.rep - 1) * ensemble_size + j]]

\* the metric registered under name by metrics_list, the last of that name
C16_Last(metrics_list, name) ==
    LET at == {i \in DOMAIN metrics_list :
                  IsMetric(metrics_list[i]) /\ metrics_list[i].name = name}
    IN  metrics_list[CHOOSE i \in at : \A j \in at : j <= i]

\* the names metrics_list registers
C16_Names(metrics_list) ==
    {metrics_list[i].name : i \in {j \in DOMAIN metrics_list :
                                      IsMetric(metrics_list[j])}}

\* C16: Ensemble.add_metrics registers each element of metrics_list that is
\* a metrics.Metric on every current member under metric.name, a later
\* metric of the same name replacing the earlier one; for an element that is
\* no metrics.Metric it only logs an error: no member's metrics changes by
\* it and the rest of the list is still processed. Stated for ensembles
\* whose members are all EnsembleMembers.
C16_MetricsRegistered ==
    (/\ prog = "Ensemble.add_metrics"
     /\ args.op = "Ensemble.add_metrics"
     /\ \A j \in DOMAIN ens.members : IsEnsembleMember(heap[ens.members[j]])) =>
        /\ exc = NoExc
        /\ \A j \in DOMAIN ens.members :
              LET old == loc.before[ens.members[j]].metrics
                  new == heap[ens.members[j]].metrics
              IN  /\ DOMAIN new = DOMAIN old \cup C16_Names(args.metrics_list)
                  /\ \A name \in DOMAIN new :
                        new[name] = IF name \in C16_Names(args.metrics_list)
                                    THEN C16_Last(args.metrics_list, name)
                                    ELSE old[name]
        /\ Cardinality({p \in DOMAIN calls : calls[p].level = "error"}) =
              Cardinality({i \in DOMAIN args.metrics_list :
                              ~IsMetric(args.metrics_list[i])})

\* the members load_ensemble is to add: all of the checkpoint, or its first
\* num_members
C18_ToLoad(check_point, num_members) ==
    IF num_members = None \/ num_members.v < 0
          \/ num_members.v > Len(check_point.v)
    THEN Len(check_point.v)
    ELSE num_members.v

\* C18: in every state reached by add_member, add_multiple and
\* load_ensemble calls on an Ensemble, size equals len(members); add_member
\* appends the new member at the end and leaves the earlier members as they
\* were; add_multiple(number_of, constructor), when it returns, has called
\* constructor exactly number_of times and grown size by exactly number_of;
\* load_ensemble adds the checkpoint's members in their order.
C18_SizeIsLength ==
    /\ [](prog \in EnsembleRuns => ens.size = Len(ens.members))
    /\ [][Ens_AddMember =>
             /\ exc' = NoExc
             /\ ens'.members = Append(ens.members, args'.new_member)
             /\ heap' = heap]_vars
    /\ []((/\ prog = "Ensemble.load_ensemble"
           /\ args.op = "Ensemble.add_multiple"
           /\ exc = NoExc) =>
             /\ loc.constructed = args.number_of
             /\ ens.size = loc.before.size + args.number_of
             /\ SubSeq(ens.members, 1, loc.before.size) = loc.before.members
             /\ \A j \in (loc.before.size + 1)..ens.size :
                   ens.members[j] = Len(heap) - (ens.size - j))
    /\ []((/\ prog = "Ensemble.load_ensemble"
           /\ args.op = "Ensemble.load_ensemble"
           /\ exc = NoExc) =>
             LET n == C18_ToLoad(args.check_point, args.num_members)
             IN  /\ ens.size = loc.before.size + n
                 /\ SubSeq(ens.members, 1, loc.before.size) = loc.before.members
                 /\ \A j \in 1..n :
                       heap[ens.members[loc.before.size + j]] =
                          args.check_point.v[j])

\* C18 happens: add_multiple has returned after two constructor calls, on an
\* ensemble grown from empty to two members
C18_Witness ==
    /\ prog = "Ensemble.load_ensemble"
    /\ args.op = "Ensemble.add_multiple"
    /\ exc = NoExc
    /\ args.number_of = 2
    /\ loc.constructed = 2
    /\ ens.size = 2
    /\ ens.members = <<1, 2>>


====
